---- MODULE Spec2Model ----
(***************************************************************************)
(* A model of pca3dvis: projected snapshots, trajectory construction, the  *)
(* PCA/alignment pipeline, the cluster detector and generate().            *)
(*                                                                         *)
(* Arrays are modelled as records [shape, dtype, data].  Shapes and dtypes *)
(* are computed as numpy computes them.  The numeric contents of a float   *)
(* array are a term (a sequence of tokens in prefix notation) that records *)
(* which operations produced the array from which inputs, so that two      *)
(* arrays are equal in the model only if the code computed them the same   *)
(* way from the same inputs.                                               *)
(*                                                                         *)
(* Each operation under study has its own specification; the caller's      *)
(* choice of arguments is part of it (actions at pc = "..._args").         *)
(***************************************************************************)
EXTENDS Integers, Sequences, FiniteSets, TLC

VARIABLES
    pc,             \* position of the operation under study
    err,            \* the exception that ended it, or NoError
    tr_snapshots,   \* ProjectedTrajectory.__init__: the argument `snapshots`
    trajectory,     \* the ProjectedTrajectory constructed, or NoTrajectory
    reference,      \* match_snaps: the reference snapshot (the object's state)
    tomatch,        \* match_snaps: the snapshot to match (the object's state)
    result,         \* match_snaps: the snapshot returned
    mats,           \* get_pc_trajectory: the raw matrices
    lbls,           \* get_pc_trajectory: the label array
    num_pcs,        \* get_pc_trajectory: the number of components asked for
    match,          \* get_pc_trajectory: whether snapshots are aligned
    i,              \* get_pc_trajectory: the loop index (0-based)
    snapshots,      \* get_pc_trajectory: the list of snapshots stored so far
    samps,          \* _cluster_scene: the projected samples of the snapshot
    args,           \* find_clusters: the arguments handed to the clustering engine
    labels_,        \* find_clusters: clusts.labels_, the engine's labelling
    clusts,         \* _cluster_scene: the Clusters returned, or NoClusters
    my_scene,       \* the timeline: the segments pushed so far
    traj,           \* generate: the trajectory
    markers,        \* generate: the markers
    titles,         \* generate: the titles
    draft,          \* generate: the draft flag
    clusters,       \* generate: the clusters flag
    fs_before,      \* the file system when generate is called
    fs,             \* the file system
    snap_ind,       \* generate: the index of the transition loop
    point_sets,     \* get_square_bounds_for_all: the point sets handed in
    square_bounds,  \* get_square_bounds_for_all: the bounds returned
    act_state,      \* the render state (pca3dvis.state.ProjectedState)
    self,           \* the scene whose enter or apply is called
    time_ms,        \* apply: the time fraction handed in, <<numerator, denominator>>
    default_styling,\* act_state.default_styling: the markers, (mask, style) pairs
    styling_at_call,\* act_state.default_styling as it was when _scatter was called
    visible_mask,   \* _scatter: mask, the positions of the partition's points
    skwargs,        \* _scatter: the partition's style overrides
    styling_ind,    \* _scatter: ind
    pts_handled,    \* _scatter: pts_handled
    scatters,       \* the ax.scatter calls made so far
    frame,          \* the playback: the number of the next frame
    active,         \* the playback: the segment the last frame fell in (1-based; 0 before the first)
    entered,        \* the playback: how many times each segment's instantaneous entries fired
    events,         \* the playback: the calls of enter and apply made for the last frame, in order
    windows,        \* the playback: the flattened timeline, <<start, end>> of every segment in ms
    ref_samples,    \* the alignment: reference.projected_samples, rows of whole numbers
    tom_samples,    \* the alignment: tomatch.projected_samples, rows of whole numbers
    transform,      \* the alignment: the transform match returned, [P, q] standing for P / sqrt(q)
    aligned         \* the alignment: the samples returned, [N, q] standing for N / sqrt(q)

trajVars == <<tr_snapshots, trajectory>>
matchVars == <<reference, tomatch, result>>
pcsVars == <<mats, lbls, num_pcs, match, i, snapshots>>

clusterVars == <<samps, args, labels_, clusts, my_scene>>

genVars == <<traj, markers, titles, draft, clusters, fs_before, fs, snap_ind>>

boundsVars == <<point_sets, square_bounds>>

sceneVars == <<act_state, self, time_ms>>

scatterVars == <<default_styling, styling_at_call, visible_mask, skwargs, styling_ind, pts_handled, scatters>>

playVars == <<frame, active, entered, events, windows>>

alignVars == <<ref_samples, tom_samples, transform, aligned>>

vars == <<pc, err, trajVars, matchVars, pcsVars, clusterVars, genVars, boundsVars, sceneVars, scatterVars, playVars, alignVars>>

-----------------------------------------------------------------------------
(* Bounds *)

\* longest snapshot list handed to ProjectedTrajectory
MaxSnapshots == 3

\* longest list of raw matrices handed to get_pc_trajectory
MaxMats == 3

\* largest number of components asked for
MaxPcs == 3

\* largest number of samples handed to find_clusters
MaxSamples == 6

\* largest number of clusters the clustering engine finds
MaxEngineClusters == 2

\* largest number of points handed to the bounding-volume function
MaxBoundsPoints == 2

\* largest number of point sets handed to the bounding-volume function
MaxPointSets == 2

\* the time fractions handed to apply are the multiples of 1 / TimeSteps
TimeSteps == 4

\* longest list of markers in the render state handed to the renderer
MaxStylings == 3

\* the time between two frames of the video, in milliseconds
FrameMs == 200

\* largest number of samples of the snapshots aligned with the numbers
MaxAlignSamples == 2

\* longest list of markers handed to generate
MaxMarkers == 2

\* largest number of snapshots of the trajectory handed to generate
MaxGenSnapshots == 2

Min(a, b) == IF a <= b THEN a ELSE b

Max(a, b) == IF a >= b THEN a ELSE b

-----------------------------------------------------------------------------
(* Exceptions *)

NoError == [exc |-> "none", index |-> -1, field |-> ""]

\* raise ValueError(...) naming snapshots[index].field, mats[index] or an
\* argument (index -1)
ValueError(index, field) == [exc |-> "ValueError", index |-> index, field |-> field]

\* os.makedirs on an existing path
FileExistsError(field) == [exc |-> "FileExistsError", index |-> -1, field |-> field]

-----------------------------------------------------------------------------
(* numpy arrays *)

ndarray(shape, dtype, data) == [shape |-> shape, dtype |-> dtype, data |-> data]

FloatDtypes == {"float32", "float64"}

\* x.T of a 2-d array
T(x) == ndarray(<<x.shape[2], x.shape[1]>>, x.dtype, <<"T">> \o x.data)

\* x @ y of 2-d arrays whose inner sizes agree
MatMul(x, y) ==
    ndarray(<<x.shape[1], y.shape[2]>>,
            IF x.dtype = y.dtype THEN x.dtype ELSE "float64",
            <<"matmul">> \o x.data \o y.data)

\* the length of seq[:k] for a sequence of length len
SliceLen(len, k) == IF k >= 0 THEN Min(k, len) ELSE Max(len + k, 0)

-----------------------------------------------------------------------------
(* snapshot.py: ProjectedSnapshot *)

NoSnapshot ==
    [projection_vectors |-> ndarray(<<0, 0>>, "float64", <<"none">>),
     projected_samples |-> ndarray(<<0, 0>>, "float64", <<"none">>),
     projected_sample_labels |-> ndarray(<<0>>, "float64", <<"none">>)]

\* the checks of ProjectedSnapshot.__init__: "" when they pass, else the
\* argument that is rejected
SnapshotInitError(projection_vectors, projected_samples, projected_sample_labels) ==
    IF Len(projection_vectors.shape) # 2
       \/ projection_vectors.dtype \notin FloatDtypes
    THEN "projection_vectors"
    ELSE IF Len(projected_samples.shape) # 2
            \/ projected_samples.shape[2] # projection_vectors.shape[2]
            \/ projected_samples.dtype # projection_vectors.dtype
    THEN "projected_samples"
    ELSE IF Len(projected_sample_labels.shape) < 1
            \/ projected_sample_labels.shape[1] # projected_samples.shape[1]
    THEN "projected_sample_labels"
    ELSE ""

\* ProjectedSnapshot(...): [err, snap]
ProjectedSnapshot(projection_vectors, projected_samples, projected_sample_labels) ==
    LET bad == SnapshotInitError(projection_vectors, projected_samples,
                                 projected_sample_labels)
    IN  IF bad # "" THEN [err |-> ValueError(-1, bad), snap |-> NoSnapshot]
        ELSE [err |-> NoError,
              snap |-> [projection_vectors |-> projection_vectors,
                        projected_samples |-> projected_samples,
                        projected_sample_labels |-> projected_sample_labels]]

dtype(snap) == snap.projection_vectors.dtype

original_size(snap) == snap.projection_vectors.shape[1]

projection_size(snap) == snap.projection_vectors.shape[2]

num_samples(snap) == snap.projected_samples.shape[1]

\* project_with_matrix(samples, labels, mat): [err, snap]
project_with_matrix(samples, labels, mat) ==
    IF Len(samples.shape) # 2 \/ samples.dtype \notin FloatDtypes
    THEN [err |-> ValueError(-1, "samples"), snap |-> NoSnapshot]
    ELSE IF Len(mat.shape) # 2 \/ mat.shape[1] # samples.shape[2]
            \/ mat.dtype # samples.dtype
    THEN [err |-> ValueError(-1, "mat"), snap |-> NoSnapshot]
    ELSE ProjectedSnapshot(mat, MatMul(samples, mat), labels)

-----------------------------------------------------------------------------
(* trajectory.py: ProjectedTrajectory.__init__ *)

NoTrajectory == [constructed |-> FALSE, snapshots |-> << >>]

\* the five comparisons of the loop body, in the order of the source: the name
\* of the first field in which snap differs from snapshots[0], or ""
MutMismatchNoLabelDtype(snap, first) ==
    IF num_samples(snap) # num_samples(first) THEN "num_samples"
    ELSE IF projection_size(snap) # projection_size(first) THEN "projection_size"
    ELSE IF dtype(snap) # dtype(first) THEN "dtype"
    ELSE IF snap.projected_sample_labels.shape # first.projected_sample_labels.shape
    THEN "projected_sample_labels.shape"
    ELSE ""

MutMismatchFieldOrder(snap, first) ==
    IF projection_size(snap) # projection_size(first) THEN "projection_size"
    ELSE IF num_samples(snap) # num_samples(first) THEN "num_samples"
    ELSE IF dtype(snap) # dtype(first) THEN "dtype"
    ELSE IF snap.projected_sample_labels.shape # first.projected_sample_labels.shape
    THEN "projected_sample_labels.shape"
    ELSE IF snap.projected_sample_labels.dtype # first.projected_sample_labels.dtype
    THEN "projected_sample_labels.dtype"
    ELSE ""

Mismatch(snap, first) ==
    IF num_samples(snap) # num_samples(first) THEN "num_samples"
    ELSE IF projection_size(snap) # projection_size(first) THEN "projection_size"
    ELSE IF dtype(snap) # dtype(first) THEN "dtype"
    ELSE IF snap.projected_sample_labels.shape # first.projected_sample_labels.shape
    THEN "projected_sample_labels.shape"
    ELSE IF snap.projected_sample_labels.dtype # first.projected_sample_labels.dtype
    THEN "projected_sample_labels.dtype"
    ELSE ""

\* for i, snap in enumerate(snapshots): the first raise, from position j on
\* (j is the 1-based position; the error names the 0-based index j - 1)
RECURSIVE ValidateFrom(_, _)
ValidateFrom(snaps, j) ==
    IF j > Len(snaps) THEN NoError
    ELSE LET field == Mismatch(snaps[j], snaps[1])
         IN  IF field # "" THEN ValueError(j - 1, field)
             ELSE ValidateFrom(snaps, j + 1)

\* ProjectedTrajectory(snapshots): [err, traj]
ProjectedTrajectory(snaps) ==
    LET e == IF Len(snaps) < 1 THEN ValueError(-1, "snapshots")
             ELSE ValidateFrom(snaps, 1)
    IN  [err |-> e,
         traj |-> IF e = NoError THEN [constructed |-> TRUE, snapshots |-> snaps]
                  ELSE NoTrajectory]

-----------------------------------------------------------------------------
(* matching.py *)

\* match(a, b): [err, r], r = real(u @ vh) for u, _, vh = svd(b @ a.T)
matching_match(a, b) ==
    IF Len(a.shape) # 2 \/ a.dtype \notin FloatDtypes
    THEN [err |-> ValueError(-1, "a"), r |-> a]
    ELSE IF b.shape # a.shape \/ b.dtype # a.dtype
    THEN [err |-> ValueError(-1, "b"), r |-> a]
    ELSE LET m == MatMul(b, T(a))
         IN  [err |-> NoError,
              r |-> ndarray(<<m.shape[1], m.shape[2]>>, m.dtype,
                            <<"svd_u_vh">> \o m.data)]

\* match_snaps(reference, tomatch): the exception or the snapshot returned,
\* and the two argument objects as the call leaves them
MutMatchSnapsInPlace(ref, tom) ==
    LET m == matching_match(T(tom.projected_samples), T(ref.projected_samples))
    IN  IF m.err # NoError
        THEN [err |-> m.err, reference |-> ref, tomatch |-> tom, result |-> NoSnapshot]
        ELSE LET new == ProjectedSnapshot(
                            MatMul(tom.projection_vectors, T(m.r)),
                            MatMul(tom.projected_samples, T(m.r)),
                            tom.projected_sample_labels)
             IN  [err |-> new.err, reference |-> ref, tomatch |-> new.snap,
                  result |-> new.snap]

match_snaps(ref, tom) ==
    LET m == matching_match(T(tom.projected_samples), T(ref.projected_samples))
    IN  IF m.err # NoError
        THEN [err |-> m.err, reference |-> ref, tomatch |-> tom, result |-> NoSnapshot]
        ELSE LET new == ProjectedSnapshot(
                            MatMul(tom.projection_vectors, T(m.r)),
                            MatMul(tom.projected_samples, T(m.r)),
                            tom.projected_sample_labels)
             IN  [err |-> new.err, reference |-> ref, tomatch |-> tom,
                  result |-> new.snap]

-----------------------------------------------------------------------------
(* matching.py with numbers: matrices are sequences of rows of whole numbers.
   A matrix with irrational entries is kept as [P, q], standing for the
   matrix P / sqrt(q) with P whole and q > 0 *)

RECURSIVE SumOver(_, _)
SumOver(f, S) ==
    IF S = {} THEN 0
    ELSE LET x == CHOOSE y \in S : TRUE IN f[x] + SumOver(f, S \ {x})

Rows(A) == Len(A)

Cols(A) == Len(A[1])

\* A.T
MatrixTranspose(A) == [c \in 1..Cols(A) |-> [r \in 1..Rows(A) |-> A[r][c]]]

\* A @ B
MatrixProduct(A, B) ==
    [r \in 1..Rows(A) |->
        [c \in 1..Cols(B) |->
            SumOver([k \in 1..Cols(A) |-> A[r][k] * B[k][c]], 1..Cols(A))]]

Determinant(m) == m[1][1] * m[2][2] - m[1][2] * m[2][1]

\* m plus and minus its cofactor matrix: a multiple of a rotation and a
\* multiple of a reflection
Rotational(m) ==
    <<<<m[1][1] + m[2][2], m[1][2] - m[2][1]>>,
      <<m[2][1] - m[1][2], m[1][1] + m[2][2]>>>>

Reflectional(m) ==
    <<<<m[1][1] - m[2][2], m[1][2] + m[2][1]>>,
      <<m[2][1] + m[1][2], m[2][2] - m[1][1]>>>>

Scaled(P) == [P |-> P, q |-> P[1][1] * P[1][1] + P[1][2] * P[1][2]]

\* u, _, vh = scipy.linalg.svd(m); u @ vh, for a 2 x 2 matrix m: the
\* orthogonal factor of the polar decomposition of m.  A singular value of 0
\* leaves the sign of its singular vectors to the library, and a zero matrix
\* leaves u and vh to it altogether
svd_u_vh(m) ==
    IF Determinant(m) > 0 THEN {Scaled(Rotational(m))}
    ELSE IF Determinant(m) < 0 THEN {Scaled(Reflectional(m))}
    ELSE IF m # <<<<0, 0>>, <<0, 0>>>>
    THEN {Scaled(Rotational(m)), Scaled(Reflectional(m))}
    ELSE {Scaled(<<<<1, 0>>, <<0, 1>>>>), Scaled(<<<<0, 1>>, <<1, 0>>>>),
          Scaled(<<<<0, -1>>, <<1, 0>>>>), Scaled(<<<<-1, 0>>, <<0, 1>>>>)}

\* match(a, b): the transforms it can return
MutMatchOfTransposes(a, b) == svd_u_vh(MatrixProduct(a, MatrixTranspose(b)))

MatchTransforms(a, b) == svd_u_vh(MatrixProduct(b, MatrixTranspose(a)))

\* tomatch.projected_samples @ transform.T
AlignedSamples(samples, R) ==
    [N |-> MatrixProduct(samples, MatrixTranspose(R.P)), q |-> R.q]

-----------------------------------------------------------------------------
(* pcs.py *)

\* get_pcs(mat, num_pcs): the projection matrix eig_vecs[:, :num_pcs] of the
\* features x features eigenvector matrix, sorted by descending |eigenvalue|
get_pcs(mat, k) ==
    IF Len(mat.shape) # 2 \/ mat.dtype \notin FloatDtypes
    THEN [err |-> ValueError(-1, "mat"), eig_vecs |-> mat]
    ELSE [err |-> NoError,
          eig_vecs |-> ndarray(<<mat.shape[2], SliceLen(mat.shape[2], k)>>,
                               "float64", <<"eig_vecs">> \o mat.data)]

\* the checks of get_pc_trajectory before its loop, in the order of the source
RECURSIVE CheckMatsFrom(_, _, _)
CheckMatsFrom(ms, samples, j) ==
    IF j > Len(ms) THEN NoError
    ELSE IF Len(ms[j].shape) # 2 \/ ms[j].shape[1] # samples
            \/ ms[j].dtype # ms[1].dtype
    THEN ValueError(j - 1, "mats")
    ELSE CheckMatsFrom(ms, samples, j + 1)

GetPcTrajectoryArgsError(ms, labels, k) ==
    IF Len(ms) < 1 THEN ValueError(-1, "mats")
    ELSE IF Len(ms[1].shape) # 2 \/ ms[1].dtype \notin FloatDtypes
    THEN ValueError(0, "mats")
    ELSE LET e == CheckMatsFrom(ms, ms[1].shape[1], 1)
         IN  IF e # NoError THEN e
             ELSE IF labels.shape[1] # ms[1].shape[1] THEN ValueError(-1, "lbls")
             ELSE IF k < 1 THEN ValueError(-1, "num_pcs")
             ELSE NoError

\* snapshots[i - 1], the reference of the alignment in iteration j = i (0-based),
\* which is position j of the 1-based list
MutReferenceRaw(snaps, j) ==
    project_with_matrix(mats[j], lbls, get_pcs(mats[j], num_pcs).eig_vecs).snap

AlignReference(snaps, j) == snaps[j]

\* the body of the loop for mats[j] (0-based j): [err, snap]
Iteration(snaps, j) ==
    LET pcs == get_pcs(mats[j + 1], num_pcs)
    IN  IF pcs.err # NoError THEN [err |-> pcs.err, snap |-> NoSnapshot]
        ELSE LET p == project_with_matrix(mats[j + 1], lbls, pcs.eig_vecs)
             IN  IF p.err # NoError THEN p
                 ELSE IF match /\ j > 0
                 THEN LET m == match_snaps(AlignReference(snaps, j), p.snap)
                      IN  [err |-> m.err, snap |-> m.result]
                 ELSE p

-----------------------------------------------------------------------------
(* clusters.py *)

\* 'min_samples': 10
min_samples == 10

\* int(0.2 * n) for a sample count n >= 0: two tenths of n, truncated
MutCeilTimes02(n) == (2 * n + 9) \div 10

IntTimes02(n) == (2 * n) \div 10

NoArgs == [min_cluster_size |-> -1, min_samples |-> -1]

NoClusters ==
    [returned |-> FALSE,
     samples |-> ndarray(<<0, 0>>, "float64", <<"none">>),
     centers |-> ndarray(<<0, 0>>, "float64", << >>),
     labels |-> ndarray(<<0>>, "int32", << >>),
     calculate_params |-> NoArgs]

\* Clusters(samples, centers, labels, calculate_params): [err, clusters]
Clusters(samples, centers, labels, calculate_params) ==
    IF Len(samples.shape) # 2 \/ samples.dtype \notin FloatDtypes
    THEN [err |-> ValueError(-1, "samples"), clusters |-> NoClusters]
    ELSE IF Len(centers.shape) # 2
            \/ centers.shape[2] # samples.shape[2]
            \/ centers.dtype # samples.dtype
    THEN [err |-> ValueError(-1, "centers"), clusters |-> NoClusters]
    ELSE IF Len(labels.shape) # 1
            \/ labels.shape[1] # samples.shape[1]
            \/ labels.dtype \notin {"int32", "int64"}
    THEN [err |-> ValueError(-1, "labels"), clusters |-> NoClusters]
    ELSE [err |-> NoError,
          clusters |-> [returned |-> TRUE,
                        samples |-> samples,
                        centers |-> centers,
                        labels |-> labels,
                        calculate_params |-> calculate_params]]

num_clusters(c) == c.centers.shape[1]

\* args = {'min_cluster_size': int(0.2*samples.shape[0]), 'min_samples': 10}
FindClustersArgs(samples) ==
    [min_cluster_size |-> IntTimes02(samples.shape[1]), min_samples |-> min_samples]

\* the elements of a set of integers in ascending order, as np.unique gives them
RECURSIVE Ascending(_)
Ascending(S) ==
    IF S = {} THEN << >>
    ELSE LET least == CHOOSE x \in S : \A y \in S : x <= y
         IN  <<least>> \o Ascending(S \ {least})

\* np.unique(labels) without -1
unique_labels(labels) == Ascending({labels[j] : j \in 1..Len(labels)} \ {-1})

\* labels == lbl, as the set of (1-based) positions where it is True
LabelMask(labels, lbl) == {j \in 1..Len(labels) : labels[j] = lbl}

\* new_labels: zeros, then new_labels[labels == lbl] = lbl for every unique label
new_labels(labels) ==
    LET unique == unique_labels(labels)
    IN  [j \in 1..Len(labels) |->
            IF \E k \in 1..Len(unique) : labels[j] = unique[k]
            THEN labels[j] ELSE 0]

\* find_clusters(samples) from the labelling the engine returned on: [err,
\* clusters].  A center is sums[lbl_ind] / num_per[lbl_ind]; it is kept as the
\* set of samples that were summed and their number.
find_clusters(samples, labels) ==
    LET unique == unique_labels(labels)
        num_per == [k \in 1..Len(unique) |-> Cardinality(LabelMask(labels, unique[k]))]
        params == FindClustersArgs(samples)
    IN  IF Len(unique) = 1 /\ num_per[1] = samples.shape[1]
        THEN Clusters(samples,
                      ndarray(<<0, samples.shape[2]>>, "float32", << >>),
                      ndarray(<<samples.shape[1]>>, "int32",
                              [j \in 1..samples.shape[1] |-> 0]),
                      params)
        ELSE Clusters(samples,
                      ndarray(<<Len(unique), samples.shape[2]>>, samples.dtype,
                              [k \in 1..Len(unique) |->
                                  [members |-> LabelMask(labels, unique[k]),
                                   count |-> num_per[k]]]),
                      ndarray(<<samples.shape[1]>>, "int32", new_labels(labels)),
                      params)

-----------------------------------------------------------------------------
(* scenes.py: the scenes, as the values their constructors store *)

\* pca3dvis.state.get_square_bounds_for(pts): the bounds of the samples of
\* snapshot ind at the positions in members, kept as a term
get_square_bounds_for(ind, members) == [snapshots |-> {ind}, members |-> members]

\* pca3dvis.state.get_square_bounds_for_all((pts, npts)): the bounds of all n
\* samples of the snapshots ind - 1 and ind, kept as a term
get_square_bounds_for_all(ind, n) == [snapshots |-> {ind - 1, ind}, members |-> 1..n]

NoBounds == [snapshots |-> {}, members |-> {}]

BlankScene ==
    [type |-> "",
     snapshot_ind |-> -1,
     end_snapshot |-> -1,
     mask |-> {},
     title |-> << >>,
     alpha |-> <<0, 0>>,
     rotation |-> <<<<0, 0>>, <<0, 0>>>>,
     zoom |-> <<NoBounds, NoBounds>>]

FixedTitleScene(title) ==
    [BlankScene EXCEPT !.type = "FixedTitleScene", !.title = title]

FixedZoomScene(zoom) ==
    [BlankScene EXCEPT !.type = "FixedZoomScene", !.zoom = <<zoom, zoom>>]

FixedRotationScene(rotation) ==
    [BlankScene EXCEPT !.type = "FixedRotationScene", !.rotation = <<rotation, rotation>>]

SnapshotScene(snapshot_ind) ==
    [BlankScene EXCEPT !.type = "SnapshotScene", !.snapshot_ind = snapshot_ind]

MaskedScene(snapshot_ind, mask) ==
    [BlankScene EXCEPT !.type = "MaskedScene", !.snapshot_ind = snapshot_ind,
                       !.mask = mask]

FadeScene(snapshot_ind, mask, alpha_start, alpha_end) ==
    [BlankScene EXCEPT !.type = "FadeScene", !.snapshot_ind = snapshot_ind,
                       !.mask = mask, !.alpha = <<alpha_start, alpha_end>>]

RotationScene(rotation_start, rotation_end) ==
    [BlankScene EXCEPT !.type = "RotationScene",
                       !.rotation = <<rotation_start, rotation_end>>]

ZoomScene(zoom_start, zoom_end) ==
    [BlankScene EXCEPT !.type = "ZoomScene", !.zoom = <<zoom_start, zoom_end>>]

InterpScene(start_snapshot, end_snapshot) ==
    [BlankScene EXCEPT !.type = "InterpScene", !.snapshot_ind = start_snapshot,
                       !.end_snapshot = end_snapshot]

-----------------------------------------------------------------------------
(* scenes.py: what enter and apply do to the render state.  A real number is
   a fraction <<numerator, denominator>> with a positive denominator *)

\* _linear_to(start, end, perc): start + (end - start) * perc
linear_to(start, end, perc) == <<start * perc[2] + (end - start) * perc[1], perc[2]>>

\* x % 360
Mod360(x) == <<x[1] % (360 * x[2]), x[2]>>

\* pts[mask], for pts the projected samples of snapshot ind
SamplesAt(ind, members) == [snapshot |-> ind, members |-> members]

\* one entry of visible_points: (points, mask, style overrides)
Partition(pts, mask, overrides) == [pts |-> pts, mask |-> mask, skwargs |-> overrides]

\* the render state of a trajectory of n samples
ProjectedState(title, zoom, rotation, visible_points, n) ==
    [title |-> title, zoom |-> zoom, rotation |-> rotation,
     visible_points |-> visible_points, num_samples |-> n]

\* MaskedScene.enter
MaskedSceneEnter(sc, st) ==
    [st EXCEPT !.visible_points =
        <<Partition(SamplesAt(sc.snapshot_ind, sc.mask), sc.mask, << >>)>>]

\* FadeScene.apply
MutFadeSceneApplyBoth(sc, st, perc) ==
    LET imask == (1..st.num_samples) \ sc.mask
        alpha == linear_to(sc.alpha[1], sc.alpha[2], perc)
    IN  [st EXCEPT !.visible_points =
            <<Partition(SamplesAt(sc.snapshot_ind, sc.mask), sc.mask, [alpha |-> alpha]),
              Partition(SamplesAt(sc.snapshot_ind, imask), imask, [alpha |-> alpha])>>]

FadeSceneApply(sc, st, perc) ==
    LET imask == (1..st.num_samples) \ sc.mask
        alpha == linear_to(sc.alpha[1], sc.alpha[2], perc)
    IN  [st EXCEPT !.visible_points =
            <<Partition(SamplesAt(sc.snapshot_ind, sc.mask), sc.mask, [alpha |-> alpha]),
              Partition(SamplesAt(sc.snapshot_ind, imask), imask, << >>)>>]

\* RotationScene.apply
MutRotationSceneApplyNoWrap(sc, st, perc) ==
    [st EXCEPT !.rotation =
        <<linear_to(sc.rotation[1][1], sc.rotation[2][1], perc),
          linear_to(sc.rotation[1][2], sc.rotation[2][2], perc)>>]

RotationSceneApply(sc, st, perc) ==
    [st EXCEPT !.rotation =
        <<Mod360(linear_to(sc.rotation[1][1], sc.rotation[2][1], perc)),
          Mod360(linear_to(sc.rotation[1][2], sc.rotation[2][2], perc))>>]

-----------------------------------------------------------------------------
(* renderer.py: _scatter.  A dict is a function from its keys; a boolean mask
   is the set of positions where it is True *)

\* a value of a style dict: a scalar, or an ndarray with one entry per sample
\* (index: the positions selected from it so far)
Scalar(v) == [type |-> "scalar", value |-> v, index |-> {}]

NdArrayValue(v, positions) == [type |-> "ndarray", value |-> v, index |-> positions]

\* kwargs.update(other)
DictUpdate(kwargs, other) ==
    [k \in DOMAIN kwargs \cup DOMAIN other |->
        IF k \in DOMAIN other THEN other[k] ELSE kwargs[k]]

\* kwargs = def_styling[1].copy(); kwargs.update(skwargs); and c[overlap] when
\* kwargs['c'] is an ndarray
ScatterKwargs(style, overrides, overlap) ==
    LET kwargs == DictUpdate(style, overrides)
    IN  IF "c" \in DOMAIN kwargs /\ kwargs["c"].type = "ndarray"
        THEN [kwargs EXCEPT !["c"] = NdArrayValue(@.value, overlap)]
        ELSE kwargs

\* ax.scatter(overlap_pts[:, 0], overlap_pts[:, 1], overlap_pts[:, 2], **kwargs)
\* made for the marker at ind; overlap_pts = submask(pts, mask, overlap) are the
\* points at the positions overlap
ScatterCall(at, overlap, kwargs) == [ind |-> at, points |-> overlap, kwargs |-> kwargs]

\* the while condition of _scatter
ScatterContinues(styling, at, handled, to_handle) ==
    at < Len(styling) - 1 /\ handled < to_handle

-----------------------------------------------------------------------------
(* state.py: the bounding volume.  A point is <<x, y, z>>; the bounds are
   <<<<xlo, xhi>>, <<ylo, yhi>>, <<zlo, zhi>>>> in HALF units of the
   coordinates (every entry is twice the coordinate it stands for), so that
   midpoints and half sides are whole numbers *)

Axes == {1, 2, 3}

AxisMin(P, a) == CHOOSE m \in {p[a] : p \in P} : \A p \in P : m <= p[a]

AxisMax(P, a) == CHOOSE m \in {p[a] : p \in P} : \A p \in P : m >= p[a]

AxisRange(P, a) == AxisMax(P, a) - AxisMin(P, a)

\* the largest of the three per-axis ranges
LargestRange(P) == Max(AxisRange(P, 1), Max(AxisRange(P, 2), AxisRange(P, 3)))

\* the smallest axis-aligned box enclosing the points P, expanded per axis to
\* the largest range and centred on that axis's own midpoint
MutSquareBoundsTight(P) ==
    [a \in Axes |-> <<2 * AxisMin(P, a), 2 * AxisMax(P, a)>>]

SquareBounds(P) ==
    [a \in Axes |-> <<AxisMin(P, a) + AxisMax(P, a) - LargestRange(P),
                      AxisMin(P, a) + AxisMax(P, a) + LargestRange(P)>>]

\* get_square_bounds_for_all(point_sets): the bounds of all the points given
SquareBoundsForAll(sets) == SquareBounds(UNION {sets[j] : j \in 1..Len(sets)})

\* np.allclose with its default tolerances, rtol = 1e-5 and atol = 1e-8:
\* |a - b| <= atol + rtol * |b| for every entry.  A coordinate unit is 1e-6,
\* so a bounds entry (half units) is a multiple of 5e-7; both sides are
\* multiplied by 1 / rtol and the whole part taken, |a - b| being whole
RtolInverse == 100000

AtolTimesRtolInverse == 2000

Abs(x) == IF x < 0 THEN -x ELSE x

IsClose(a, b) == Abs(a - b) <= (AtolTimesRtolInverse + Abs(b)) \div RtolInverse

allclose(a, b) == \A ax \in Axes, end \in {1, 2} : IsClose(a[ax][end], b[ax][end])

\* the value of a bounds term over the trajectory t: the bounds of the samples
\* at the positions term.members of the snapshots term.snapshots
BoundsValue(t, term) ==
    SquareBounds({t.snapshots[k + 1].projected_samples.data[m] :
                     k \in term.snapshots, m \in term.members})

-----------------------------------------------------------------------------
(* worker.py: the timeline *)

\* .join(scene, False)
Join(scene) == [scene |-> scene, durative |-> FALSE, dilate |-> << >>]

\* .push(scene).dilate(...).dilate(...).pop('join')
PushPopJoin(scene, easings) == [scene |-> scene, durative |-> TRUE, dilate |-> easings]

\* my_scene.push(scene) ... .dilate(easing).time_rescale_exact(seconds, 's')
\* .pop(): one segment of the timeline, with the scenes joined to it
Segment(scene, joined, easing, seconds) ==
    [scene |-> scene, joined |-> joined, dilate |-> easing, seconds |-> seconds,
     time_rescale |-> 1]

\* my_scene.time_rescale(factor)
MutTimeRescaleFirst(scene, factor) ==
    [j \in 1..Len(scene) |->
        IF j = 1 THEN [scene[j] EXCEPT !.time_rescale = @ * factor] ELSE scene[j]]

time_rescale(scene, factor) ==
    [j \in 1..Len(scene) |-> [scene[j] EXCEPT !.time_rescale = @ * factor]]

\* the positions 1..n of the samples
AllSamples(n) == 1..n

\* titles[ind], f'{title} - Cluster {clust+1}', and
\* titles[ind - 1] + ' -> ' + titles[ind]
TitleOf(ind) == <<"titles", ToString(ind)>>

ClusterTitle(title, clust) == title \o <<"- Cluster", ToString(clust + 1)>>

TransitionTitle(ind) == TitleOf(ind - 1) \o <<"->">> \o TitleOf(ind)

\* the length of a segment on the timeline, in milliseconds: what
\* time_rescale_exact set, divided by the playback rate of every time_rescale
\* applied since
SegmentDuration(seg) == (seg.seconds * 1000) \div seg.time_rescale

\* the segments popped onto my_scene play one after the other
RECURSIVE TimelineDuration(_)
TimelineDuration(scene) ==
    IF scene = << >> THEN 0
    ELSE SegmentDuration(Head(scene)) + TimelineDuration(Tail(scene))

\* generate: the intro with a length of 10 seconds
MutIntroSegmentTen(n) ==
    Segment(SnapshotScene(0),
            <<Join(FixedTitleScene(TitleOf(0))),
              Join(RotationScene(<<30, 45>>, <<30, 45 + 360>>)),
              Join(FixedZoomScene(get_square_bounds_for(0, AllSamples(n))))>>,
            "easeInOutSine", 10)

\* generate: the intro that opens my_scene, for a first snapshot of n samples
IntroSegment(n) ==
    Segment(SnapshotScene(0),
            <<Join(FixedTitleScene(TitleOf(0))),
              Join(RotationScene(<<30, 45>>, <<30, 45 + 360>>)),
              Join(FixedZoomScene(get_square_bounds_for(0, AllSamples(n))))>>,
            "easeInOutSine", 12)

\* _cluster_scene: the five segments pushed for cluster clust of the Clusters c
ClusterSegments(ind, title, clust, c) ==
    LET n == c.samples.shape[1]
        mask == {j \in 1..n : c.labels.data[j] = clust}
        unmasked == AllSamples(n) \ mask
        ctitle == ClusterTitle(title, clust)
        outer_zoom == get_square_bounds_for(ind, AllSamples(n))
        inner_zoom == get_square_bounds_for(ind, mask)
    IN  <<Segment(FadeScene(ind, unmasked, 1, 0),
                  <<Join(FixedTitleScene(ctitle)),
                    Join(FixedRotationScene(<<30, 45>>)),
                    Join(FixedZoomScene(outer_zoom))>>,
                  "easeOutSine", 2),
          Segment(ZoomScene(outer_zoom, inner_zoom),
                  <<Join(MaskedScene(ind, mask)),
                    Join(FixedTitleScene(ctitle)),
                    Join(FixedRotationScene(<<30, 45>>))>>,
                  "smoothstep", 2),
          Segment(RotationScene(<<30, 45>>, <<30, 45 + 360>>),
                  <<Join(MaskedScene(ind, mask)),
                    Join(FixedTitleScene(ctitle)),
                    Join(FixedZoomScene(inner_zoom))>>,
                  "easeInOutSine", 10),
          Segment(ZoomScene(inner_zoom, outer_zoom),
                  <<Join(MaskedScene(ind, mask)),
                    Join(FixedTitleScene(ctitle)),
                    Join(FixedRotationScene(<<30, 45>>))>>,
                  "smoothstep", 2),
          Segment(FadeScene(ind, unmasked, 0, 1),
                  <<Join(FixedTitleScene(ctitle)),
                    Join(FixedRotationScene(<<30, 45>>)),
                    Join(FixedZoomScene(outer_zoom))>>,
                  "easeInSine", 2)>>

\* for clust in range(clusts.num_clusters): the segments pushed from clust on
RECURSIVE MutClusterLoopSkipLast(_, _, _, _)
MutClusterLoopSkipLast(ind, title, clust, c) ==
    IF clust >= num_clusters(c) - 1 THEN << >>
    ELSE ClusterSegments(ind, title, clust, c)
           \o MutClusterLoopSkipLast(ind, title, clust + 1, c)

RECURSIVE ClusterLoopFrom(_, _, _, _)
ClusterLoopFrom(ind, title, clust, c) ==
    IF clust >= num_clusters(c) THEN << >>
    ELSE ClusterSegments(ind, title, clust, c)
           \o ClusterLoopFrom(ind, title, clust + 1, c)

\* the segments generate pushes for the transition to snapshot ind of a
\* trajectory of n samples, before any cluster segments; zoom_close and
\* nzoom_close are np.allclose(zoom, mzoom) and np.allclose(mzoom, nzoom)
TransitionSegments(ind, n, zoom_close, nzoom_close) ==
    LET zoom == get_square_bounds_for(ind - 1, AllSamples(n))
        nzoom == get_square_bounds_for(ind, AllSamples(n))
        mzoom == get_square_bounds_for_all(ind, n)
        ititle == TransitionTitle(ind)
    IN  (IF zoom_close THEN << >>
         ELSE <<Segment(ZoomScene(zoom, mzoom),
                        <<Join(SnapshotScene(ind - 1)),
                          Join(FixedTitleScene(ititle)),
                          Join(FixedRotationScene(<<30, 45>>))>>,
                        "smoothstep", 2)>>)
        \o <<Segment(InterpScene(ind - 1, ind),
                     <<Join(FixedZoomScene(mzoom)),
                       Join(FixedTitleScene(ititle)),
                       PushPopJoin(RotationScene(<<30, 45>>, <<30, 45 + 360>>),
                                   <<"easeInOutSine", "squeeze">>)>>,
                     "easeInOutCirc", 6)>>
        \o (IF nzoom_close THEN << >>
            ELSE <<Segment(ZoomScene(mzoom, nzoom),
                           <<Join(SnapshotScene(ind)),
                             Join(FixedTitleScene(ititle)),
                             Join(FixedRotationScene(<<30, 45>>))>>,
                           "smoothstep", 2)>>)
        \o <<Segment(SnapshotScene(ind),
                     <<Join(FixedTitleScene(TitleOf(ind))),
                       Join(RotationScene(<<30, 45>>, <<30, 45 + 360>>)),
                       Join(FixedZoomScene(nzoom))>>,
                     "easeInOutSine", 10)>>

-----------------------------------------------------------------------------
(* worker.py: generate *)

\* a value inside an argument: its Python type and, for an ndarray, its shape
\* and dtype
Value(type, shape, dt) == [type |-> type, shape |-> shape, dtype |-> dt]

MarkerOf(type, items) == [type |-> type, items |-> items]

\* traj.num_snapshots and traj.num_samples
num_snapshots(t) == Len(t.snapshots)

traj_num_samples(t) == num_samples(t.snapshots[1])

\* the checks of the loop body for markers[i] (1-based position j = i + 1)
MarkerError(ms, j, n) ==
    IF ms[j].type \notin {"list", "tuple"} THEN ValueError(j - 1, "marker")
    ELSE IF Len(ms[j].items) # 2 THEN ValueError(j - 1, "marker")
    ELSE IF ms[j].items[1].type # "ndarray"
            \/ ms[j].items[1].shape # <<n>>
            \/ ms[j].items[1].dtype # "bool"
    THEN ValueError(j - 1, "marker[0]")
    ELSE IF ms[j].items[2].type # "dict" THEN ValueError(j - 1, "marker[1]")
    ELSE NoError

\* for i, marker in enumerate(markers): the first raise, from position j on
RECURSIVE CheckMarkersFrom(_, _, _)
CheckMarkersFrom(ms, j, n) ==
    IF j > Len(ms) THEN NoError
    ELSE LET e == MarkerError(ms, j, n)
         IN  IF e # NoError THEN e ELSE CheckMarkersFrom(ms, j + 1, n)

\* tus.check_listlike(titles=(titles, str, traj.num_snapshots))
TitlesError(ts, count) ==
    IF Len(ts) # count \/ \E j \in 1..Len(ts) : ts[j] # "str"
    THEN ValueError(-1, "titles")
    ELSE NoError

\* the checks of generate before its first write, in the order of the source
MutArgsErrorTitlesUnchecked(t, ms, ts) == CheckMarkersFrom(ms, 1, traj_num_samples(t))

GenerateArgsError(t, ms, ts) ==
    LET e == CheckMarkersFrom(ms, 1, traj_num_samples(t))
    IN  IF e # NoError THEN e ELSE TitlesError(ts, num_snapshots(t))

\* the file system, as the set of paths that exist, each with who wrote it last
File(path, by) == [path |-> path, by |-> by]

Exists(files, path) == \E f \in files : f.path = path

\* a path is created or overwritten by generate
Write(files, path) == {f \in files : f.path # path} \cup {File(path, "generate")}

\* os.makedirs(path): [err, fs]
MutMakedirsExistOk(files, path) == [err |-> NoError, fs |-> Write(files, path)]

makedirs(files, path) ==
    IF Exists(files, path)
    THEN [err |-> FileExistsError("outfolder"), fs |-> files]
    ELSE [err |-> NoError, fs |-> Write(files, path)]

outfolder == <<"outfolder">>

\* range(start, stop, step)
RangeStep(start, stop, step) ==
    {start + k * step : k \in 0..((stop - start - 1) \div step)}

\* filepath + f'_rot{rot}' + ext for snapshot i
SnapshotImage(j, rot, is_draft) ==
    outfolder \o <<"snapshots", "snapshot_", ToString(j), "_rot", ToString(rot),
                   IF is_draft THEN ".png" ELSE ".pdf">>

\* the files the loop over the titles saves
SnapshotImages(ts, is_draft) ==
    {SnapshotImage(j - 1, rot, is_draft) :
        j \in 1..Len(ts),
        rot \in RangeStep(15, 375, IF is_draft THEN 60 ELSE 30)}

RECURSIVE WriteAll(_, _)
WriteAll(files, paths) ==
    IF paths = {} THEN files
    ELSE LET path == CHOOSE q \in paths : TRUE
         IN  WriteAll(Write(files, path), paths \ {path})

\* _cluster_scene(my_scene, traj, ind, title, draft) when the engine returns
\* labels: [err, segments]
cluster_scene(t, ind, labels) ==
    LET r == find_clusters(t.snapshots[ind + 1].projected_samples, labels)
    IN  IF r.err # NoError THEN [err |-> r.err, segments |-> << >>]
        ELSE [err |-> NoError,
              segments |-> ClusterLoopFrom(ind, TitleOf(ind), 0, r.clusters)]

-----------------------------------------------------------------------------
(* Values of the variables an operation does not use *)

NoLabels == ndarray(<<0>>, "int64", <<"none">>)

IdleTraj == tr_snapshots = << >> /\ trajectory = NoTrajectory

IdleMatch == reference = NoSnapshot /\ tomatch = NoSnapshot /\ result = NoSnapshot

IdlePcs ==
    /\ mats = << >>
    /\ lbls = NoLabels
    /\ num_pcs = 0
    /\ match = FALSE
    /\ i = 0
    /\ snapshots = << >>

IdleClusters ==
    /\ samps = ndarray(<<0, 0>>, "float64", <<"none">>)
    /\ args = NoArgs
    /\ labels_ = << >>
    /\ clusts = NoClusters
    /\ my_scene = << >>

IdleGenerate ==
    /\ traj = NoTrajectory
    /\ markers = << >>
    /\ titles = << >>
    /\ draft = FALSE
    /\ clusters = FALSE
    /\ fs_before = {}
    /\ fs = {}
    /\ snap_ind = 0

IdleBounds == point_sets = << >> /\ square_bounds = << >>

NoState == ProjectedState(<< >>, NoBounds, <<<<0, 1>>, <<0, 1>>>>, << >>, 0)

IdleScenes == act_state = NoState /\ self = BlankScene /\ time_ms = <<0, 1>>

IdlePlay ==
    frame = 0 /\ active = 0 /\ entered = << >> /\ events = << >> /\ windows = << >>

IdleAlign ==
    ref_samples = << >> /\ tom_samples = << >> /\ transform = << >> /\ aligned = << >>

IdleScatter ==
    /\ default_styling = << >>
    /\ styling_at_call = << >>
    /\ visible_mask = {}
    /\ skwargs = << >>
    /\ styling_ind = -1
    /\ pts_handled = 0
    /\ scatters = << >>

-----------------------------------------------------------------------------
(* Snapshots a caller can construct *)

LabelRests == {<< >>, <<1>>}
LabelDtypes == {"int64", "float64"}
LabelData == {<<"lbls_a">>, <<"lbls_b">>}
SampleCounts == {2, 3}
ProjSizes == {1, 2}
OriginalSizes == {2, 3}

MkSnapshot(name, og, n, p, dt, lrest, ldt, ldata) ==
    ProjectedSnapshot(ndarray(<<og, p>>, dt, <<name, "vectors">>),
                      ndarray(<<n, p>>, dt, <<name, "samples">>),
                      ndarray(<<n>> \o lrest, ldt, ldata)).snap

\* every check compares with snapshots[0] by (in)equality only, so snapshot 0
\* ranges over two snapshots that differ from each other in every field
FirstSnapshots ==
    {MkSnapshot("s", 2, 2, 1, "float64", << >>, "int64", <<"lbls_a">>),
     MkSnapshot("s", 2, 3, 2, "float32", <<1>>, "float64", <<"lbls_b">>)}

\* later snapshots: every combination of the five compared fields and of the
\* label contents
AnySnapshots ==
    {MkSnapshot("s", 2, n, p, dt, lrest, ldt, ldata) :
        n \in SampleCounts, p \in ProjSizes, dt \in FloatDtypes,
        lrest \in LabelRests, ldt \in LabelDtypes, ldata \in LabelData}

\* the arguments of match_snaps
NamedSnapshots(name, ldata) ==
    {MkSnapshot(name, og, n, p, dt, lrest, ldt, ldata) :
        og \in OriginalSizes, n \in SampleCounts, p \in ProjSizes,
        dt \in FloatDtypes, lrest \in LabelRests, ldt \in LabelDtypes}

-----------------------------------------------------------------------------
(* SpecTraj: ProjectedTrajectory(snapshots) on a list the caller built *)

\* the caller puts one more snapshot on the list it will pass
AppendSnapshot ==
    /\ pc = "trajectory_args"
    /\ Len(tr_snapshots) < MaxSnapshots
    /\ \E snap \in (IF tr_snapshots = << >> THEN FirstSnapshots ELSE AnySnapshots) :
           tr_snapshots' = Append(tr_snapshots, snap)
    /\ UNCHANGED <<pc, err, trajectory, matchVars, pcsVars, clusterVars, genVars,
                   boundsVars, sceneVars, scatterVars, playVars, alignVars>>

\* ProjectedTrajectory(tr_snapshots)
ConstructTrajectory ==
    /\ pc = "trajectory_args"
    /\ LET t == ProjectedTrajectory(tr_snapshots)
       IN  err' = t.err /\ trajectory' = t.traj
    /\ pc' = "done"
    /\ UNCHANGED <<tr_snapshots, matchVars, pcsVars, clusterVars, genVars, boundsVars,
                   sceneVars, scatterVars, playVars, alignVars>>

InitTraj ==
    /\ pc = "trajectory_args"
    /\ err = NoError
    /\ IdleTraj /\ IdleMatch /\ IdlePcs /\ IdleClusters /\ IdleGenerate
    /\ IdleBounds
    /\ IdleScenes
    /\ IdleScatter
    /\ IdlePlay
    /\ IdleAlign

NextTraj == AppendSnapshot \/ ConstructTrajectory

SpecTraj == InitTraj /\ [][NextTraj]_vars

-----------------------------------------------------------------------------
(* SpecMatch: match_snaps(reference, tomatch) on two snapshots of the caller *)

ChooseMatchArgs ==
    /\ pc = "match_args"
    /\ reference' \in NamedSnapshots("reference", <<"lbls_a">>)
    /\ tomatch' \in NamedSnapshots("tomatch", <<"lbls_b">>)
    /\ pc' = "match_snaps"
    /\ UNCHANGED <<err, result, trajVars, pcsVars, clusterVars, genVars, boundsVars,
                   sceneVars, scatterVars, playVars, alignVars>>

MatchSnaps ==
    /\ pc = "match_snaps"
    /\ LET m == match_snaps(reference, tomatch)
       IN  /\ err' = m.err
           /\ reference' = m.reference
           /\ tomatch' = m.tomatch
           /\ result' = m.result
    /\ pc' = "done"
    /\ UNCHANGED <<trajVars, pcsVars, clusterVars, genVars, boundsVars, sceneVars,
                   scatterVars, playVars, alignVars>>

InitMatch ==
    /\ pc = "match_args"
    /\ err = NoError
    /\ IdleTraj /\ IdleMatch /\ IdlePcs /\ IdleClusters /\ IdleGenerate
    /\ IdleBounds
    /\ IdleScenes
    /\ IdleScatter
    /\ IdlePlay
    /\ IdleAlign

NextMatch == ChooseMatchArgs \/ MatchSnaps

SpecMatch == InitMatch /\ [][NextMatch]_vars

-----------------------------------------------------------------------------
(* SpecPcs: get_pc_trajectory(mats, lbls, num_pcs, match) *)

FeatureCounts == {2, 3}

LabelArrays == {ndarray(<<n>>, "int64", <<"lbls">>) : n \in SampleCounts}

\* the caller puts one more raw matrix on the list it will pass
AppendMat ==
    /\ pc = "pcs_args"
    /\ Len(mats) < MaxMats
    /\ \E n \in SampleCounts, f \in FeatureCounts :
           mats' = Append(mats, ndarray(<<n, f>>, "float64",
                                        <<"mats", ToString(Len(mats))>>))
    /\ UNCHANGED <<pc, err, lbls, num_pcs, match, i, snapshots, trajVars, matchVars,
                   clusterVars, genVars, boundsVars, sceneVars, scatterVars, playVars,
                   alignVars>>

\* the call, up to the loop
CallGetPcTrajectory ==
    /\ pc = "pcs_args"
    /\ lbls' \in LabelArrays
    /\ num_pcs' \in 0..MaxPcs
    /\ match' \in BOOLEAN
    /\ err' = GetPcTrajectoryArgsError(mats, lbls', num_pcs')
    /\ pc' = IF err' = NoError THEN "pcs_loop" ELSE "done"
    /\ i' = 0
    /\ snapshots' = << >>
    /\ UNCHANGED <<mats, trajVars, matchVars, clusterVars, genVars, boundsVars,
                   sceneVars, scatterVars, playVars, alignVars>>

\* one iteration of: for i, mat in enumerate(mats)
LoopStep ==
    /\ pc = "pcs_loop"
    /\ i < Len(mats)
    /\ LET it == Iteration(snapshots, i)
       IN  IF it.err # NoError
           THEN err' = it.err /\ pc' = "done" /\ UNCHANGED <<i, snapshots>>
           ELSE /\ snapshots' = Append(snapshots, it.snap)
                /\ i' = i + 1
                /\ UNCHANGED <<pc, err>>
    /\ UNCHANGED <<mats, lbls, num_pcs, match, trajVars, matchVars, clusterVars, genVars,
                   boundsVars, sceneVars, scatterVars, playVars, alignVars>>

\* return ProjectedTrajectory(snapshots)
ReturnTrajectory ==
    /\ pc = "pcs_loop"
    /\ i = Len(mats)
    /\ LET t == ProjectedTrajectory(snapshots)
       IN  err' = t.err /\ trajectory' = t.traj
    /\ pc' = "done"
    /\ UNCHANGED <<tr_snapshots, pcsVars, matchVars, clusterVars, genVars, boundsVars,
                   sceneVars, scatterVars, playVars, alignVars>>

InitPcs ==
    /\ pc = "pcs_args"
    /\ err = NoError
    /\ IdleTraj /\ IdleMatch /\ IdlePcs /\ IdleClusters /\ IdleGenerate
    /\ IdleBounds
    /\ IdleScenes
    /\ IdleScatter
    /\ IdlePlay
    /\ IdleAlign

NextPcs == AppendMat \/ CallGetPcTrajectory \/ LoopStep \/ ReturnTrajectory

SpecPcs == InitPcs /\ [][NextPcs]_vars

-----------------------------------------------------------------------------
(* SpecClusters: _cluster_scene(my_scene, traj, 0, titles[0], draft), as generate
   calls it after the intro, with the clustering engine as a collaborator that
   may return any labelling of the samples *)

SampleDims == {2, 3}

\* the labellings the engine can return for n samples: -1 for noise, and the
\* clusters it found numbered from 0
EngineLabellings(n) ==
    {l \in [1..n -> -1..(MaxEngineClusters - 1)] :
        \E found \in 0..MaxEngineClusters :
            {l[j] : j \in 1..n} \ {-1} = 0..(found - 1)}

\* the caller has the first snapshot's samples and the intro on the timeline
ChooseSamples ==
    /\ pc = "cluster_args"
    /\ \E n \in 1..MaxSamples, d \in SampleDims, dt \in FloatDtypes :
           /\ samps' = ndarray(<<n, d>>, dt, <<"samps">>)
           /\ my_scene' = <<IntroSegment(n)>>
    /\ pc' = "find_clusters"
    /\ UNCHANGED <<err, args, labels_, clusts, trajVars, matchVars, pcsVars,
                   genVars, boundsVars, sceneVars, scatterVars, playVars, alignVars>>

\* find_clusters up to clusts.fit(samples): the engine runs with args and
\* leaves its labelling in clusts.labels_
HdbscanFit ==
    /\ pc = "find_clusters"
    /\ args' = FindClustersArgs(samps)
    /\ labels_' \in EngineLabellings(samps.shape[1])
    /\ pc' = "find_clusters_labels"
    /\ UNCHANGED <<err, samps, clusts, my_scene, trajVars, matchVars, pcsVars,
                   genVars, boundsVars, sceneVars, scatterVars, playVars, alignVars>>

\* the rest of find_clusters
FindClustersReturn ==
    /\ pc = "find_clusters_labels"
    /\ LET r == find_clusters(samps, labels_)
       IN  /\ err' = r.err
           /\ clusts' = r.clusters
           /\ pc' = IF r.err = NoError THEN "cluster_loop" ELSE "done"
    /\ UNCHANGED <<samps, args, labels_, my_scene, trajVars, matchVars, pcsVars,
                   genVars, boundsVars, sceneVars, scatterVars, playVars, alignVars>>

\* the loop of _cluster_scene
ClusterLoop ==
    /\ pc = "cluster_loop"
    /\ my_scene' = my_scene \o ClusterLoopFrom(0, TitleOf(0), 0, clusts)
    /\ pc' = "done"
    /\ UNCHANGED <<err, samps, args, labels_, clusts, trajVars, matchVars, pcsVars,
                   genVars, boundsVars, sceneVars, scatterVars, playVars, alignVars>>

InitClusters ==
    /\ pc = "cluster_args"
    /\ err = NoError
    /\ IdleTraj /\ IdleMatch /\ IdlePcs /\ IdleClusters /\ IdleGenerate
    /\ IdleBounds
    /\ IdleScenes
    /\ IdleScatter
    /\ IdlePlay
    /\ IdleAlign

NextClusters == ChooseSamples \/ HdbscanFit \/ FindClustersReturn \/ ClusterLoop

SpecClusters == InitClusters /\ [][NextClusters]_vars

-----------------------------------------------------------------------------
(* SpecGenerate: generate(traj, markers, titles, outfolder, draft, clusters) *)

\* the markers a caller may pass: well-formed ones for each sample count, and
\* one of each kind that generate rejects
Markers ==
    {MarkerOf("tuple", <<Value("ndarray", <<n>>, "bool"), Value("dict", << >>, "")>>) :
        n \in SampleCounts}
    \cup {MarkerOf("tuple", <<Value("ndarray", <<2>>, "int64"),
                              Value("dict", << >>, "")>>),
          MarkerOf("tuple", <<Value("ndarray", <<2>>, "bool"),
                              Value("list", << >>, "")>>),
          MarkerOf("tuple", <<Value("ndarray", <<2>>, "bool")>>)}

\* title lists for a trajectory of count snapshots: one title each, one title
\* too many, one too few, and one title that is not a str
TitleLists(count) ==
    {[j \in 1..count |-> "str"],
     [j \in 1..(count + 1) |-> "str"],
     [j \in 1..(count - 1) |-> "str"],
     [j \in 1..count |-> IF j = 1 THEN "int" ELSE "str"]}

\* the output folder before the call: absent, or there with a prior run in it
FsBefore ==
    {{},
     {File(outfolder, "prior"),
      File(outfolder \o <<"snapshots">>, "prior"),
      File(outfolder \o <<"video.mp4">>, "prior")}}

\* the projected samples of a snapshot: n points of a cloud of extent scale.
\* A coordinate unit is 1e-6, so the clouds have extent 1, 1.000004 and 2
CloudScales == {1000000, 1000004, 2000000}

Cloud(n, scale) ==
    [j \in 1..n |-> IF j = 1 THEN <<0, 0, 0>>
                    ELSE IF j = 2 THEN <<scale, scale, scale>>
                    ELSE <<scale, 0, 0>>]

\* a trajectory of count snapshots of n samples in 3 components, snapshot j
\* holding the cloud of extent scales[j]
GenTrajectory(count, n, dt, scales) ==
    [constructed |-> TRUE,
     snapshots |-> [j \in 1..count |->
                       [MkSnapshot(ToString(j - 1), 3, n, 3, dt, << >>, "int64",
                                   <<"lbls_a">>)
                           EXCEPT !.projected_samples.data = Cloud(n, scales[j])]]]

\* the labellings the engine returns inside generate: one group, all noise,
\* two clusters, and noise beside one cluster
GenerateLabellings(n) ==
    {[j \in 1..n |-> 0],
     [j \in 1..n |-> -1],
     [j \in 1..n |-> IF j = 1 THEN 0 ELSE 1],
     [j \in 1..n |-> IF j = 1 THEN -1 ELSE 0]}

\* the caller puts one more marker on the list it will pass; the lists tried
\* have at most one malformed marker, the last (a mask of the wrong length can
\* be anywhere)
AppendMarker ==
    /\ pc = "generate_args"
    /\ Len(markers) < MaxMarkers
    /\ \A j \in 1..Len(markers) :
           markers[j].items = <<Value("ndarray", markers[j].items[1].shape, "bool"),
                                Value("dict", << >>, "")>>
    /\ \E marker \in Markers : markers' = Append(markers, marker)
    /\ UNCHANGED <<pc, err, traj, titles, draft, clusters, fs_before, fs, snap_ind,
                   trajVars, matchVars, pcsVars, clusterVars, boundsVars, sceneVars,
                   scatterVars, playVars, alignVars>>

\* the call
CallGenerate ==
    /\ pc = "generate_args"
    /\ \E count \in 1..MaxGenSnapshots, n \in SampleCounts, dt \in FloatDtypes :
           /\ \E scales \in [1..count -> CloudScales] :
                  traj' = GenTrajectory(count, n, dt, scales)
           /\ titles' \in TitleLists(count)
    /\ draft' \in BOOLEAN
    /\ clusters' \in BOOLEAN
    /\ fs_before' \in FsBefore
    /\ fs' = fs_before'
    /\ pc' = "validate"
    /\ UNCHANGED <<err, markers, snap_ind, trajVars, matchVars, pcsVars, clusterVars,
                   boundsVars, sceneVars, scatterVars, playVars, alignVars>>

\* the checks of the arguments
ValidateArgs ==
    /\ pc = "validate"
    /\ err' = GenerateArgsError(traj, markers, titles)
    /\ pc' = IF err' = NoError THEN "makedirs" ELSE "done"
    /\ UNCHANGED <<traj, markers, titles, draft, clusters, fs_before, fs, snap_ind,
                   trajVars, matchVars, pcsVars, clusterVars, boundsVars, sceneVars,
                   scatterVars, playVars, alignVars>>

\* os.makedirs(outfolder); os.makedirs(os.path.join(outfolder, 'snapshots'))
MakeDirs ==
    /\ pc = "makedirs"
    /\ LET first == makedirs(fs, outfolder)
           second == makedirs(first.fs, outfolder \o <<"snapshots">>)
       IN  IF first.err # NoError
           THEN err' = first.err /\ fs' = first.fs /\ pc' = "done"
           ELSE IF second.err # NoError
           THEN err' = second.err /\ fs' = second.fs /\ pc' = "done"
           ELSE err' = NoError /\ fs' = second.fs /\ pc' = "snapshot_images"
    /\ UNCHANGED <<traj, markers, titles, draft, clusters, fs_before, snap_ind,
                   trajVars, matchVars, pcsVars, clusterVars, boundsVars, sceneVars,
                   scatterVars, playVars, alignVars>>

\* the loop that saves the images of every snapshot
SaveSnapshotImages ==
    /\ pc = "snapshot_images"
    /\ fs' = WriteAll(fs, SnapshotImages(titles, draft))
    /\ pc' = "intro"
    /\ UNCHANGED <<err, traj, markers, titles, draft, clusters, fs_before, snap_ind,
                   trajVars, matchVars, pcsVars, clusterVars, boundsVars, sceneVars,
                   scatterVars, playVars, alignVars>>

\* the intro, and the cluster segments of snapshot 0
CompileIntro ==
    /\ pc = "intro"
    /\ \E labels \in GenerateLabellings(traj_num_samples(traj)) :
          LET cs == IF clusters THEN cluster_scene(traj, 0, labels)
                    ELSE [err |-> NoError, segments |-> << >>]
          IN  /\ err' = cs.err
              /\ my_scene' = <<IntroSegment(traj_num_samples(traj))>> \o cs.segments
              /\ pc' = IF cs.err = NoError THEN "transitions" ELSE "done"
              /\ IF clusters
                 THEN /\ samps' = traj.snapshots[0 + 1].projected_samples
                      /\ args' = FindClustersArgs(samps')
                      /\ labels_' = labels
                      /\ clusts' = find_clusters(samps', labels).clusters
                 ELSE UNCHANGED <<samps, args, labels_, clusts>>
    /\ snap_ind' = 1
    /\ UNCHANGED <<traj, markers, titles, draft, clusters, fs_before, fs,
                   trajVars, matchVars, pcsVars, boundsVars, sceneVars, scatterVars,
                   playVars, alignVars>>

\* one iteration of: for snap_ind in range(1, traj.num_snapshots)
CompileTransition ==
    /\ pc = "transitions"
    /\ snap_ind < num_snapshots(traj)
    /\ \E labels \in GenerateLabellings(traj_num_samples(traj)) :
          LET n == traj_num_samples(traj)
              zoom == BoundsValue(traj, get_square_bounds_for(snap_ind - 1, AllSamples(n)))
              nzoom == BoundsValue(traj, get_square_bounds_for(snap_ind, AllSamples(n)))
              mzoom == BoundsValue(traj, get_square_bounds_for_all(snap_ind, n))
              zoom_close == allclose(zoom, mzoom)
              nzoom_close == allclose(mzoom, nzoom)
              cs == IF clusters THEN cluster_scene(traj, snap_ind, labels)
                    ELSE [err |-> NoError, segments |-> << >>]
          IN  /\ err' = cs.err
              /\ my_scene' = my_scene
                               \o TransitionSegments(snap_ind, traj_num_samples(traj),
                                                     zoom_close, nzoom_close)
                               \o cs.segments
              /\ pc' = IF cs.err = NoError THEN "transitions" ELSE "done"
              /\ IF clusters
                 THEN /\ samps' = traj.snapshots[snap_ind + 1].projected_samples
                      /\ args' = FindClustersArgs(samps')
                      /\ labels_' = labels
                      /\ clusts' = find_clusters(samps', labels).clusters
                 ELSE UNCHANGED <<samps, args, labels_, clusts>>
    /\ snap_ind' = snap_ind + 1
    /\ UNCHANGED <<traj, markers, titles, draft, clusters, fs_before, fs,
                   trajVars, matchVars, pcsVars, boundsVars, sceneVars, scatterVars,
                   playVars, alignVars>>

\* the draft rescale and pympanim.worker.produce
Produce ==
    /\ pc = "transitions"
    /\ snap_ind = num_snapshots(traj)
    /\ my_scene' = IF draft THEN time_rescale(my_scene, 5) ELSE my_scene
    /\ fs' = Write(fs, outfolder \o <<IF draft THEN "draft.mp4" ELSE "video.mp4">>)
    /\ pc' = "done"
    /\ UNCHANGED <<err, traj, markers, titles, draft, clusters, fs_before, snap_ind,
                   samps, args, labels_, clusts, trajVars, matchVars, pcsVars,
                   boundsVars, sceneVars, scatterVars, playVars, alignVars>>

InitGenerate ==
    /\ pc = "generate_args"
    /\ err = NoError
    /\ IdleTraj /\ IdleMatch /\ IdlePcs /\ IdleClusters /\ IdleGenerate
    /\ IdleBounds
    /\ IdleScenes
    /\ IdleScatter
    /\ IdlePlay
    /\ IdleAlign

NextGenerate ==
    \/ AppendMarker
    \/ CallGenerate
    \/ ValidateArgs
    \/ MakeDirs
    \/ SaveSnapshotImages
    \/ CompileIntro
    \/ CompileTransition
    \/ Produce

SpecGenerate == InitGenerate /\ [][NextGenerate]_vars

-----------------------------------------------------------------------------
(* SpecBounds: get_square_bounds_for_all(point_sets); get_square_bounds_for(pts)
   is the call with one point set *)

\* the coordinates a caller's points take
Coords == {-2, 0, 3}

Points == {<<x, y, z>> : x \in Coords, y \in Coords, z \in Coords}

NumPoints(sets) == Cardinality(UNION {sets[j] : j \in 1..Len(sets)})

\* the caller starts one more point set, with its first point
AddPointSet ==
    /\ pc = "bounds_args"
    /\ Len(point_sets) < MaxPointSets
    /\ NumPoints(point_sets) < MaxBoundsPoints
    /\ \E p \in Points : point_sets' = Append(point_sets, {p})
    /\ UNCHANGED <<pc, err, square_bounds, trajVars, matchVars, pcsVars, clusterVars,
                   genVars, sceneVars, scatterVars, playVars, alignVars>>

\* the caller puts one more point into the last point set
AddPoint ==
    /\ pc = "bounds_args"
    /\ Len(point_sets) > 0
    /\ NumPoints(point_sets) < MaxBoundsPoints
    /\ \E p \in Points :
           point_sets' = [point_sets EXCEPT ![Len(point_sets)] = @ \cup {p}]
    /\ UNCHANGED <<pc, err, square_bounds, trajVars, matchVars, pcsVars, clusterVars,
                   genVars, sceneVars, scatterVars, playVars, alignVars>>

\* the call
GetSquareBoundsForAll ==
    /\ pc = "bounds_args"
    /\ Len(point_sets) > 0
    /\ square_bounds' = SquareBoundsForAll(point_sets)
    /\ pc' = "done"
    /\ UNCHANGED <<err, point_sets, trajVars, matchVars, pcsVars, clusterVars,
                   genVars, sceneVars, scatterVars, playVars, alignVars>>

InitBounds ==
    /\ pc = "bounds_args"
    /\ err = NoError
    /\ IdleTraj /\ IdleMatch /\ IdlePcs /\ IdleClusters /\ IdleGenerate
    /\ IdleBounds
    /\ IdleScenes
    /\ IdleScatter
    /\ IdlePlay
    /\ IdleAlign

NextBounds == AddPointSet \/ AddPoint \/ GetSquareBoundsForAll

SpecBounds == InitBounds /\ [][NextBounds]_vars

-----------------------------------------------------------------------------
(* SpecScenes: one call of FadeScene.apply or RotationScene.apply on a render
   state, which a MaskedScene may have entered before *)

\* the rotations a caller may give a RotationScene: the ones generate uses,
\* and some that leave [0, 360) on either side
Rotations == {<<30, 45>>, <<30, 45 + 360>>, <<-30, 350>>, <<400, -725>>}

\* the opacities a caller may give a FadeScene
Alphas == {0, 1}

\* the render state ProjectedState starts with, for n samples: all samples of
\* snapshot 0 visible and no style override
StartState(n) ==
    ProjectedState(<<"title">>, get_square_bounds_for(0, AllSamples(n)),
                   <<<<30, 1>>, <<45, 1>>>>,
                   <<Partition(SamplesAt(0, AllSamples(n)), AllSamples(n), << >>)>>, n)

\* the render state is created
CreateState ==
    /\ pc = "scene_args"
    /\ act_state = NoState
    /\ \E n \in SampleCounts : act_state' = StartState(n)
    /\ UNCHANGED <<pc, err, self, time_ms, trajVars, matchVars, pcsVars, clusterVars,
                   genVars, boundsVars, scatterVars, playVars, alignVars>>

\* an earlier segment restricted the visible points
EnterMaskedScene ==
    /\ pc = "scene_args"
    /\ act_state # NoState
    /\ \E mask \in SUBSET AllSamples(act_state.num_samples) :
           /\ self' = MaskedScene(0, mask)
           /\ act_state' = MaskedSceneEnter(self', act_state)
    /\ pc' = "scene_entered"
    /\ UNCHANGED <<err, time_ms, trajVars, matchVars, pcsVars, clusterVars,
                   genVars, boundsVars, scatterVars, playVars, alignVars>>

\* FadeScene(0, mask, alpha_start, alpha_end).apply(act_state, time_ms)
ApplyFadeScene ==
    /\ pc \in {"scene_args", "scene_entered"}
    /\ act_state # NoState
    /\ \E mask \in SUBSET AllSamples(act_state.num_samples),
          alpha_start \in Alphas, alpha_end \in Alphas :
           self' = FadeScene(0, mask, alpha_start, alpha_end)
    /\ \E k \in 0..TimeSteps : time_ms' = <<k, TimeSteps>>
    /\ act_state' = FadeSceneApply(self', act_state, time_ms')
    /\ pc' = "done"
    /\ UNCHANGED <<err, trajVars, matchVars, pcsVars, clusterVars, genVars, boundsVars,
                   scatterVars, playVars, alignVars>>

\* RotationScene(rotation_start, rotation_end).apply(act_state, time_ms)
ApplyRotationScene ==
    /\ pc \in {"scene_args", "scene_entered"}
    /\ act_state # NoState
    /\ \E rotation_start \in Rotations, rotation_end \in Rotations :
           self' = RotationScene(rotation_start, rotation_end)
    /\ \E k \in 0..TimeSteps : time_ms' = <<k, TimeSteps>>
    /\ act_state' = RotationSceneApply(self', act_state, time_ms')
    /\ pc' = "done"
    /\ UNCHANGED <<err, trajVars, matchVars, pcsVars, clusterVars, genVars, boundsVars,
                   scatterVars, playVars, alignVars>>

InitScenes ==
    /\ pc = "scene_args"
    /\ err = NoError
    /\ IdleTraj /\ IdleMatch /\ IdlePcs /\ IdleClusters /\ IdleGenerate
    /\ IdleBounds
    /\ IdleScenes
    /\ IdleScatter
    /\ IdlePlay
    /\ IdleAlign

NextScenes == CreateState \/ EnterMaskedScene \/ ApplyFadeScene \/ ApplyRotationScene

SpecScenes == InitScenes /\ [][NextScenes]_vars

-----------------------------------------------------------------------------
(* SpecScatter: _scatter(act_state, ax, pts, mask, skwargs) for one entry of
   act_state.visible_points *)

\* the positions of the samples
ScatterSamples == 1..3

\* the styles a marker may carry, and the overrides a partition may carry
Styles ==
    {[c |-> Scalar("red"), s |-> Scalar("5")],
     [c |-> NdArrayValue("colors", ScatterSamples), alpha |-> Scalar("1")]}

Overrides == {<< >>, [alpha |-> Scalar("0.5")], [c |-> Scalar("black")]}

\* the caller puts one more marker into the render state
AppendStyling ==
    /\ pc = "scatter_args"
    /\ Len(default_styling) < MaxStylings
    /\ \E marker_mask \in SUBSET ScatterSamples, style \in Styles :
           default_styling' = Append(default_styling, <<marker_mask, style>>)
    /\ UNCHANGED <<pc, err, styling_at_call, visible_mask, skwargs, styling_ind,
                   pts_handled, scatters, trajVars, matchVars, pcsVars, clusterVars,
                   genVars, boundsVars, sceneVars, playVars, alignVars>>

\* render_mpl calls _scatter for an entry of visible_points
CallScatter ==
    /\ pc = "scatter_args"
    /\ visible_mask' \in SUBSET ScatterSamples
    /\ skwargs' \in Overrides
    /\ styling_at_call' = default_styling
    /\ styling_ind' = -1
    /\ pts_handled' = 0
    /\ scatters' = << >>
    /\ pc' = "scatter_loop"
    /\ UNCHANGED <<err, default_styling, trajVars, matchVars, pcsVars, clusterVars,
                   genVars, boundsVars, sceneVars, playVars, alignVars>>

\* one iteration of the while loop
ScatterLoop ==
    /\ pc = "scatter_loop"
    /\ ScatterContinues(default_styling, styling_ind, pts_handled,
                        Cardinality(visible_mask))
    /\ styling_ind' = styling_ind + 1
    /\ LET def_styling == default_styling[styling_ind' + 1]
           overlap == visible_mask \cap def_styling[1]
           osum == Cardinality(overlap)
       IN  IF osum = 0
           THEN UNCHANGED <<scatters, pts_handled>>
           ELSE /\ scatters' = Append(scatters,
                                      ScatterCall(styling_ind', overlap,
                                                  ScatterKwargs(def_styling[2], skwargs,
                                                                overlap)))
                /\ pts_handled' = pts_handled + osum
    /\ UNCHANGED <<pc, err, default_styling, styling_at_call, visible_mask, skwargs,
                   trajVars, matchVars, pcsVars, clusterVars, genVars, boundsVars,
                   sceneVars, playVars, alignVars>>

\* the loop ends
ScatterReturn ==
    /\ pc = "scatter_loop"
    /\ ~ScatterContinues(default_styling, styling_ind, pts_handled,
                         Cardinality(visible_mask))
    /\ pc' = "done"
    /\ UNCHANGED <<err, scatterVars, trajVars, matchVars, pcsVars, clusterVars,
                   genVars, boundsVars, sceneVars, playVars, alignVars>>

InitScatter ==
    /\ pc = "scatter_args"
    /\ err = NoError
    /\ IdleTraj /\ IdleMatch /\ IdlePcs /\ IdleClusters /\ IdleGenerate
    /\ IdleBounds
    /\ IdleScenes
    /\ IdleScatter
    /\ IdlePlay
    /\ IdleAlign

NextScatter == AppendStyling \/ CallScatter \/ ScatterLoop \/ ScatterReturn

SpecScatter == InitScatter /\ [][NextScatter]_vars

-----------------------------------------------------------------------------
(* The playback of the compiled timeline: pympanim.worker.produce evaluates
   the Act at every frame time.  A field of the render state holds the call
   that assigned it last: the scene and the time it was called with; what a
   scene assigns depends on its attributes, on that time and on the
   trajectory only, never on the render state it is given *)

\* the value a call of enter or apply left in a field
Written(sc, at) == [by |-> sc, at |-> at]

\* the local time of a durative entry: the fraction num / den of its segment
\* that has passed, warped by the easings of the segment and of the entry
LocalTime(num, den, easings) == [num |-> num, den |-> den, easings |-> easings]

EnterTime == LocalTime(0, 1, <<"enter">>)

\* the render state generate leaves for the playback: the snapshot-image
\* loop made the last snapshot visible, set its title and turned the camera
\* to the last rot of range(15, 375, 60 if draft else 30); the bounds are
\* those of the construction
ImageLoop(t, is_draft) ==
    [BlankScene EXCEPT !.type = "generate: snapshot images",
                       !.snapshot_ind = num_snapshots(t) - 1,
                       !.title = TitleOf(num_snapshots(t) - 1),
                       !.rotation = IF is_draft THEN <<<<30, 315>>, <<30, 315>>>>
                                    ELSE <<<<30, 345>>, <<30, 345>>>>]

StateAtConstruction == [BlankScene EXCEPT !.type = "ProjectedState.__init__"]

StateAfterImages(t, is_draft) ==
    [title |-> Written(ImageLoop(t, is_draft), EnterTime),
     zoom |-> Written(StateAtConstruction, EnterTime),
     rotation |-> Written(ImageLoop(t, is_draft), EnterTime),
     visible_points |-> Written(ImageLoop(t, is_draft), EnterTime)]

\* scenes.py: the field of the render state the enter of a scene assigns
EnterAssigns(sc) ==
    CASE sc.type = "FixedTitleScene" -> {"title"}
      [] sc.type = "FixedZoomScene" -> {"zoom"}
      [] sc.type = "FixedRotationScene" -> {"rotation"}
      [] sc.type = "SnapshotScene" -> {"visible_points"}
      [] sc.type = "MaskedScene" -> {"visible_points"}
      [] OTHER -> {}

\* scenes.py: the field of the render state the apply of a scene assigns
ApplyAssigns(sc) ==
    CASE sc.type = "FadeScene" -> {"visible_points"}
      [] sc.type = "RotationScene" -> {"rotation"}
      [] sc.type = "ZoomScene" -> {"zoom"}
      [] sc.type = "InterpScene" -> {"visible_points"}
      [] OTHER -> {}

SceneEnter(sc, st) ==
    [f \in DOMAIN st |-> IF f \in EnterAssigns(sc) THEN Written(sc, EnterTime)
                         ELSE st[f]]

SceneApply(sc, st, at) ==
    [f \in DOMAIN st |-> IF f \in ApplyAssigns(sc) THEN Written(sc, at) ELSE st[f]]

\* the entries of a segment, the pushed scene first: a pushed scene is
\* durative when it has an apply, a joined scene when it was joined so
Entries(seg) ==
    <<[scene |-> seg.scene, durative |-> ApplyAssigns(seg.scene) # {},
       dilate |-> << >>]>>
        \o seg.joined

\* the segments play one after the other, each from its start up to but not
\* including its end
SegmentStart(scene, j) == TimelineDuration(SubSeq(scene, 1, j - 1))

\* the flattened timeline: <<start, end>> of every segment, in milliseconds
Flatten(scene) ==
    [j \in 1..Len(scene) |->
        <<SegmentStart(scene, j), SegmentStart(scene, j) + SegmentDuration(scene[j])>>]

MutActiveSegmentsClosed(flat, t) ==
    {j \in 1..Len(flat) : flat[j][1] <= t /\ t <= flat[j][2]}

ActiveSegments(flat, t) ==
    {j \in 1..Len(flat) : flat[j][1] <= t /\ t < flat[j][2]}

\* a segment is entered by the first frame that falls in it
MutEnteredEveryFrame(seg, last_active) == TRUE

SegmentEntered(seg, last_active) == seg # last_active

\* the calls a frame at t makes in the segment seg: the enter of every
\* instantaneous entry when the segment is entered, then the apply of every
\* durative entry, both in the order of the entries
RECURSIVE CallsFrom(_, _, _, _, _)
CallsFrom(seg, es, k, durative, at) ==
    IF k > Len(es) THEN << >>
    ELSE (IF es[k].durative = durative
          THEN <<[call |-> IF durative THEN "apply" ELSE "enter",
                  segment |-> seg,
                  entry |-> k,
                  at |-> IF durative
                         THEN LocalTime(at.num, at.den, at.easings \o es[k].dilate)
                         ELSE EnterTime]>>
          ELSE << >>)
         \o CallsFrom(seg, es, k + 1, durative, at)

FrameCalls(scene, flat, seg, t, last_active) ==
    LET es == Entries(scene[seg])
        at == LocalTime(t - flat[seg][1], flat[seg][2] - flat[seg][1],
                        <<scene[seg].dilate>>)
    IN  (IF SegmentEntered(seg, last_active)
         THEN CallsFrom(seg, es, 1, FALSE, at) ELSE << >>)
        \o CallsFrom(seg, es, 1, TRUE, at)

RECURSIVE RunCalls(_, _, _)
RunCalls(scene, calls, st) ==
    IF calls = << >> THEN st
    ELSE LET c == Head(calls)
             sc == Entries(scene[c.segment])[c.entry].scene
         IN  RunCalls(scene, Tail(calls),
                      IF c.call = "enter" THEN SceneEnter(sc, st)
                      ELSE SceneApply(sc, st, c.at))

\* what generate compiles for the snapshots from ind on of the trajectory t,
\* when the engine returns labels for every snapshot
RECURSIVE CompileFrom(_, _, _, _)
CompileFrom(t, ind, with_clusters, labels) ==
    IF ind >= num_snapshots(t) THEN << >>
    ELSE LET n == traj_num_samples(t)
             zoom == BoundsValue(t, get_square_bounds_for(ind - 1, AllSamples(n)))
             nzoom == BoundsValue(t, get_square_bounds_for(ind, AllSamples(n)))
             mzoom == BoundsValue(t, get_square_bounds_for_all(ind, n))
         IN  TransitionSegments(ind, n, allclose(zoom, mzoom), allclose(mzoom, nzoom))
               \o (IF with_clusters THEN cluster_scene(t, ind, labels).segments
                   ELSE << >>)
               \o CompileFrom(t, ind + 1, with_clusters, labels)

Compile(t, is_draft, with_clusters, labels) ==
    LET scene == <<IntroSegment(traj_num_samples(t))>>
                    \o (IF with_clusters THEN cluster_scene(t, 0, labels).segments
                        ELSE << >>)
                    \o CompileFrom(t, 1, with_clusters, labels)
    IN  IF is_draft THEN time_rescale(scene, 5) ELSE scene

-----------------------------------------------------------------------------
(* SpecPlay: generate compiles the timeline of a trajectory and the frames of
   the video are rendered one after the other *)

\* generate(traj, markers, titles, outfolder, draft, clusters) up to the call
\* of produce, for arguments it accepts and labels the engine can return
GenerateCompiles ==
    /\ pc = "play_args"
    /\ \E count \in 1..MaxGenSnapshots, n \in SampleCounts :
         \E scales \in [1..count -> CloudScales], labels \in GenerateLabellings(n) :
           /\ traj' = GenTrajectory(count, n, "float64", scales)
           /\ draft' \in BOOLEAN
           /\ clusters' \in BOOLEAN
           /\ clusters' => \A ind \in 0..(count - 1) :
                               cluster_scene(traj', ind, labels).err = NoError
           /\ labels_' = IF clusters' THEN labels ELSE << >>
           /\ my_scene' = Compile(traj', draft', clusters', labels)
    /\ act_state' = StateAfterImages(traj', draft')
    /\ frame' = 0
    /\ active' = 0
    /\ entered' = [j \in 1..Len(my_scene') |-> 0]
    /\ events' = << >>
    /\ windows' = Flatten(my_scene')
    /\ pc' = "play"
    /\ UNCHANGED <<err, markers, titles, fs_before, fs, snap_ind, samps, args, clusts,
                   self, time_ms, trajVars, matchVars, pcsVars, boundsVars,
                   scatterVars, alignVars>>

\* one frame of the video
RenderFrame ==
    /\ pc = "play"
    /\ frame * FrameMs < windows[Len(windows)][2]
    /\ LET t == frame * FrameMs
           seg == CHOOSE j \in ActiveSegments(windows, t) : TRUE
           calls == FrameCalls(my_scene, windows, seg, t, active)
       IN  /\ events' = calls
           /\ act_state' = RunCalls(my_scene, calls, act_state)
           /\ entered' = [entered EXCEPT ![seg] =
                             IF \E k \in 1..Len(calls) : calls[k].call = "enter"
                             THEN @ + 1 ELSE @]
           /\ active' = seg
    /\ frame' = frame + 1
    /\ UNCHANGED <<pc, err, windows, self, time_ms, trajVars, matchVars, pcsVars, clusterVars,
                   genVars, boundsVars, scatterVars, alignVars>>

\* the video is over
EndOfVideo ==
    /\ pc = "play"
    /\ frame * FrameMs >= windows[Len(windows)][2]
    /\ pc' = "done"
    /\ UNCHANGED <<err, trajVars, matchVars, pcsVars, clusterVars, genVars,
                   boundsVars, sceneVars, scatterVars, playVars, alignVars>>

InitPlay ==
    /\ pc = "play_args"
    /\ err = NoError
    /\ IdleTraj /\ IdleMatch /\ IdlePcs /\ IdleClusters /\ IdleGenerate
    /\ IdleBounds
    /\ IdleScenes
    /\ IdleScatter
    /\ IdlePlay
    /\ IdleAlign

NextPlay ==
    \/ GenerateCompiles
    \/ RenderFrame
    \/ EndOfVideo

SpecPlay == InitPlay /\ [][NextPlay]_vars

-----------------------------------------------------------------------------
(* SpecAlign: match_snaps(reference, tomatch) on the projected samples of two
   snapshots of 2 components, with the numbers *)

\* the samples a snapshot holds
AlignPoints == {<<0, 0>>, <<1, 0>>, <<0, 2>>, <<-1, 1>>, <<2, -1>>}

\* the caller's snapshots get one more sample each
AddSamplePair ==
    /\ pc = "align_args"
    /\ Len(ref_samples) < MaxAlignSamples
    /\ \E p \in AlignPoints : ref_samples' = Append(ref_samples, p)
    /\ \E p \in AlignPoints : tom_samples' = Append(tom_samples, p)
    /\ UNCHANGED <<pc, err, transform, aligned, trajVars, matchVars, pcsVars,
                   clusterVars, genVars, boundsVars, sceneVars, scatterVars, playVars>>

\* match_snaps(reference, tomatch)
AlignSnaps ==
    /\ pc = "align_args"
    /\ ref_samples # << >>
    /\ transform' \in MatchTransforms(MatrixTranspose(tom_samples),
                                      MatrixTranspose(ref_samples))
    /\ aligned' = AlignedSamples(tom_samples, transform')
    /\ pc' = "done"
    /\ UNCHANGED <<err, ref_samples, tom_samples, trajVars, matchVars, pcsVars,
                   clusterVars, genVars, boundsVars, sceneVars, scatterVars, playVars>>

InitAlign ==
    /\ pc = "align_args"
    /\ err = NoError
    /\ IdleTraj /\ IdleMatch /\ IdlePcs /\ IdleClusters /\ IdleGenerate
    /\ IdleBounds
    /\ IdleScenes
    /\ IdleScatter
    /\ IdlePlay
    /\ IdleAlign

NextAlign ==
    \/ AddSamplePair
    \/ AlignSnaps

SpecAlign == InitAlign /\ [][NextAlign]_vars

-----------------------------------------------------------------------------
(* The spec's error taxonomy, as the exceptions the code raises for it *)

\* trajectory.py raises ValueError for every shape or dtype mismatch
ShapeMismatchError == "ValueError"

\* pcs.py raises ValueError for a component count below 1
DimensionError == "ValueError"

\* os.makedirs raises FileExistsError when the output directory exists
OutputExistsError == "FileExistsError"

-----------------------------------------------------------------------------
(* Claims about ProjectedTrajectory.__init__ (SpecTraj) *)

\* snap has the sample count, projection size, numeric type, label shape and
\* label type of first; label contents are not looked at
AgreesWith(snap, first) ==
    /\ snap.projected_samples.shape[1] = first.projected_samples.shape[1]
    /\ snap.projection_vectors.shape[2] = first.projection_vectors.shape[2]
    /\ snap.projection_vectors.dtype = first.projection_vectors.dtype
    /\ snap.projected_sample_labels.shape = first.projected_sample_labels.shape
    /\ snap.projected_sample_labels.dtype = first.projected_sample_labels.dtype

AllAgree(snaps) == \A j \in 1..Len(snaps) : AgreesWith(snaps[j], snaps[1])

\* C1: construction returns a trajectory exactly when the list is non-empty and
\* every snapshot agrees with snapshot 0 in the five fields; the trajectory is
\* then the list itself, non-empty and agreeing; in every other case it fails
\* and yields no trajectory.  Label contents play no part: agreement in the
\* five fields is enough.
C1_TrajectoryInvariants ==
    pc = "done" =>
        /\ trajectory.constructed <=> (tr_snapshots # << >> /\ AllAgree(tr_snapshots))
        /\ trajectory.constructed =>
              /\ trajectory.snapshots = tr_snapshots
              /\ Len(trajectory.snapshots) >= 1
              /\ AllAgree(trajectory.snapshots)
              /\ err = NoError
        /\ ~trajectory.constructed => (err # NoError /\ trajectory = NoTrajectory)

\* a trajectory of two snapshots whose label contents differ was constructed
C1_Witness ==
    /\ pc = "done"
    /\ trajectory.constructed
    /\ Len(trajectory.snapshots) >= 2
    /\ trajectory.snapshots[1].projected_sample_labels.data
         # trajectory.snapshots[2].projected_sample_labels.data

\* the 1-based position of the first snapshot that disagrees with snapshot 0
FirstOffending(snaps) ==
    CHOOSE j \in 1..Len(snaps) :
        /\ ~AgreesWith(snaps[j], snaps[1])
        /\ \A h \in 1..(j - 1) : AgreesWith(snaps[h], snaps[1])

SampleCountsDiffer(snaps) ==
    \E j \in 1..Len(snaps) : num_samples(snaps[j]) # num_samples(snaps[1])

\* the fields in which snap differs from first
OffendingFields(snap, first) ==
    {f \in {"num_samples", "projection_size", "dtype",
            "projected_sample_labels.shape", "projected_sample_labels.dtype"} :
        \/ f = "num_samples" /\ num_samples(snap) # num_samples(first)
        \/ f = "projection_size" /\ projection_size(snap) # projection_size(first)
        \/ f = "dtype" /\ dtype(snap) # dtype(first)
        \/ f = "projected_sample_labels.shape"
             /\ snap.projected_sample_labels.shape # first.projected_sample_labels.shape
        \/ f = "projected_sample_labels.dtype"
             /\ snap.projected_sample_labels.dtype # first.projected_sample_labels.dtype}

\* C2: when the sample counts of the snapshots differ, construction fails with
\* the ShapeMismatchError of the taxonomy; the error names the 0-based index of
\* the first snapshot that breaks an invariant and a field in which that
\* snapshot differs from snapshot 0, which is num_samples whenever that
\* snapshot's sample count differs.
C2_SampleCountMismatch ==
    (pc = "done" /\ SampleCountsDiffer(tr_snapshots)) =>
        LET j == FirstOffending(tr_snapshots)
        IN  /\ ~trajectory.constructed
            /\ err.exc = ShapeMismatchError
            /\ err.index = j - 1
            /\ err.field \in OffendingFields(tr_snapshots[j], tr_snapshots[1])
            /\ num_samples(tr_snapshots[j]) # num_samples(tr_snapshots[1])
                  => err.field = "num_samples"

\* snapshots 0 and 1 agree and snapshot 2 has another sample count: the error
\* names index 2 and num_samples
C2_Witness ==
    /\ pc = "done"
    /\ Len(tr_snapshots) = 3
    /\ num_samples(tr_snapshots[3]) # num_samples(tr_snapshots[1])
    /\ err = ValueError(2, "num_samples")

-----------------------------------------------------------------------------
(* Claims about get_pc_trajectory (SpecPcs) *)

\* the PCA projection of mats[j] (1-based j), before any alignment
RawProjection(j) ==
    project_with_matrix(mats[j], lbls, get_pcs(mats[j], num_pcs).eig_vecs).snap

\* C3: the list of stored snapshots grows in index order (in the loop it holds
\* exactly the snapshots of the iterations done); with alignment, snapshot 0 is
\* the raw projection and every later snapshot is the raw projection aligned
\* against the stored snapshot before it; without alignment every stored
\* snapshot is the raw projection; the trajectory returned holds these
\* snapshots.
C3_AlignmentChain ==
    /\ pc = "pcs_loop" => Len(snapshots) = i
    /\ \A j \in 1..Len(snapshots) :
          snapshots[j] = IF match /\ j > 1
                         THEN match_snaps(snapshots[j - 1], RawProjection(j)).result
                         ELSE RawProjection(j)
    /\ trajectory.constructed => trajectory.snapshots = snapshots

\* three snapshots were aligned and returned, and the stored snapshot 1 is not
\* its raw projection, so aligning snapshot 2 against the one or the other
\* differs
C3_Witness ==
    /\ pc = "done"
    /\ trajectory.constructed
    /\ match
    /\ Len(snapshots) = 3
    /\ snapshots[2] # RawProjection(2)
    /\ snapshots[3] # match_snaps(RawProjection(2), RawProjection(3)).result

\* C5: no snapshot is stored with fewer than num_pcs columns, and a call whose
\* arguments pass the checks and whose num_pcs exceeds the feature count of a
\* matrix ends with the DimensionError of the taxonomy.
C5_DimensionErrorClaim ==
    /\ \A j \in 1..Len(snapshots) : projection_size(snapshots[j]) >= num_pcs
    /\ (/\ pc = "done"
        /\ mats # << >>
        /\ GetPcTrajectoryArgsError(mats, lbls, num_pcs) = NoError
        /\ \E j \in 1..Len(mats) : num_pcs > mats[j].shape[2])
          => err.exc = DimensionError

-----------------------------------------------------------------------------
(* Claims about find_clusters and _cluster_scene (SpecClusters) *)

\* find_clusters has returned or raised
FindClustersOver == pc \in {"cluster_loop", "done"}

\* C6: the labels of the returned Clusters lie in {-1, 0, ..., K-1} for the K
\* returned centers, and every sample the engine labelled -1 (noise) carries
\* label -1 in the returned Clusters.
C6_LabelRangeClaim ==
    clusts.returned =>
        \A j \in 1..clusts.samples.shape[1] :
            /\ clusts.labels.data[j] \in -1..(clusts.centers.shape[1] - 1)
            /\ labels_[j] = -1 => clusts.labels.data[j] = -1

\* the engine put all N samples into the one group 0
SingleGroup == labels_ # << >> /\ \A j \in 1..Len(labels_) : labels_[j] = 0

\* C7: when the engine puts all N samples into one labelled group, find_clusters
\* returns Clusters with zero centers and label 0 for every sample, and
\* _cluster_scene then leaves the timeline as it was (the intro alone).
C7_DegenerateClaim ==
    (FindClustersOver /\ SingleGroup) =>
        /\ clusts.returned
        /\ clusts.centers.shape[1] = 0
        /\ \A j \in 1..Len(labels_) : clusts.labels.data[j] = 0
        /\ pc = "done" => /\ err = NoError
                          /\ Len(my_scene) = 1

\* the engine has been run
EngineRun == pc \in {"find_clusters_labels", "cluster_loop", "done"}

\* C8 (as the code has it): for every sample count N the engine runs with
\* min_cluster_size equal to floor(0.2*N), the largest integer not above N/5,
\* and min_samples equal to 10; the returned Clusters record these arguments.
C8_EngineArgsFloor ==
    EngineRun =>
        /\ 5 * args.min_cluster_size <= samps.shape[1]
        /\ samps.shape[1] < 5 * (args.min_cluster_size + 1)
        /\ args.min_samples = 10
        /\ clusts.returned => clusts.calculate_params = args

\* the engine ran on 6 samples with min_cluster_size 1, where ceil(0.2*6) = 2
C8_Witness ==
    /\ EngineRun
    /\ samps.shape[1] = 6
    /\ args = [min_cluster_size |-> 1, min_samples |-> 10]
    /\ labels_ # << >>

\* C8 as stated: min_cluster_size is ceil(0.2*N), the smallest integer not
\* below N/5, and min_samples is 10.
C8_EngineArgsCeil ==
    EngineRun =>
        /\ 5 * args.min_cluster_size >= samps.shape[1]
        /\ samps.shape[1] > 5 * (args.min_cluster_size - 1)
        /\ args.min_samples = 10

-----------------------------------------------------------------------------
(* Claims about generate (SpecGenerate) *)

\* generate has been called
Called == pc # "generate_args"

\* marker is not a pair, or its mask is not a boolean vector of length n, or
\* its style is not a mapping
BadMarker(marker, n) ==
    \/ Len(marker.items) # 2
    \/ marker.items[1] # Value("ndarray", <<n>>, "bool")
    \/ marker.items[2].type # "dict"

\* the arguments have one of the four defects
ArgsInvalid ==
    \/ \E j \in 1..Len(markers) :
          BadMarker(markers[j], traj.snapshots[1].projected_samples.shape[1])
    \/ Len(titles) # Len(traj.snapshots)

\* C9: when the arguments of generate have one of the four defects (a marker
\* that is not a pair, a mask that is not a boolean vector of length
\* num_samples, a style that is not a mapping, a title list of the wrong
\* length), the call ends with an error and the file system is at every moment
\* what it was before the call: no directory, image or video is created.
C9_ValidationBeforeWrite ==
    (Called /\ ArgsInvalid) =>
        /\ fs = fs_before
        /\ pc \in {"validate", "done"}
        /\ pc = "done" => err # NoError

\* a call with a good marker and a title too many was rejected for its titles
\* and the output folder is still absent
C9_Witness ==
    /\ pc = "done"
    /\ markers # << >>
    /\ Len(titles) = Len(traj.snapshots) + 1
    /\ err = ValueError(-1, "titles")
    /\ fs = {}

\* the arguments are valid
ArgsValid == ~ArgsInvalid /\ \A j \in 1..Len(titles) : titles[j] = "str"

\* C10: when the output folder exists and the arguments are otherwise valid,
\* the call ends with the OutputExistsError of the taxonomy and the file system
\* is at every moment what it was before the call: nothing in the folder is
\* created or overwritten, and the call never gets to produce a video.
C10_ExistingOutfolder ==
    (Called /\ ArgsValid /\ \E f \in fs_before : f.path = <<"outfolder">>) =>
        /\ fs = fs_before
        /\ pc \in {"validate", "makedirs", "done"}
        /\ pc = "done" => err.exc = OutputExistsError

\* a valid call on a folder that holds a prior run's video failed and the
\* video is still the prior run's
C10_Witness ==
    /\ pc = "done"
    /\ err.exc = "FileExistsError"
    /\ markers # << >>
    /\ [path |-> <<"outfolder", "video.mp4">>, by |-> "prior"] \in fs
    /\ fs = fs_before

-----------------------------------------------------------------------------
(* Claims about match_snaps (SpecMatch) *)

\* C4: the call leaves both argument snapshots as they were, and the snapshot
\* it returns is a new one that has the labels of tomatch unchanged and the
\* sample count, original size and projection size of tomatch.
C4_MatchSnapsFrame ==
    [][pc = "match_snaps" =>
          /\ reference' = reference
          /\ tomatch' = tomatch
          /\ err' = NoError =>
                /\ result' \notin {reference, tomatch, NoSnapshot}
                /\ result'.projected_sample_labels = tomatch.projected_sample_labels
                /\ num_samples(result') = num_samples(tomatch)
                /\ original_size(result') = original_size(tomatch)
                /\ projection_size(result') = projection_size(tomatch)]_vars

\* an alignment succeeded for snapshots whose original sizes and labels differ
C4_Witness ==
    /\ pc = "done"
    /\ err = NoError
    /\ result # NoSnapshot
    /\ original_size(reference) # original_size(tomatch)
    /\ reference.projected_sample_labels # tomatch.projected_sample_labels
    /\ result.projected_sample_labels = tomatch.projected_sample_labels

-----------------------------------------------------------------------------
(* C14 *)

AllPoints == UNION {point_sets[j] : j \in 1..Len(point_sets)}

\* C14: the bounding volume of a non-empty collection of 3-D points has the
\* same side length on all three axes, that side is the largest of the three
\* per-axis ranges, each axis is centred on the midpoint of its own range, and
\* every point lies inside.  (Bounds are in half units: every entry is twice
\* the coordinate.)
C14_BoundingCube ==
    (pc = "done" /\ point_sets # << >>) =>
        LET b == square_bounds
            side == b[1][2] - b[1][1]
        IN  /\ \A a \in Axes : b[a][2] - b[a][1] = side
            /\ \E a \in Axes : side = 2 * AxisRange(AllPoints, a)
            /\ \A a \in Axes : side >= 2 * AxisRange(AllPoints, a)
            /\ \A a \in Axes :
                   b[a][1] + b[a][2] = 2 * (AxisMin(AllPoints, a) + AxisMax(AllPoints, a))
            /\ \A p \in AllPoints, a \in Axes :
                   b[a][1] <= 2 * p[a] /\ 2 * p[a] <= b[a][2]

\* two point sets whose three ranges all differ got their bounds
C14_Witness ==
    /\ pc = "done"
    /\ Len(point_sets) = 2
    /\ AxisRange(AllPoints, 1) > AxisRange(AllPoints, 2)
    /\ AxisRange(AllPoints, 2) > AxisRange(AllPoints, 3)
    /\ AxisRange(AllPoints, 3) > 0
    /\ square_bounds[3][1] < 2 * AxisMin(AllPoints, 3)

-----------------------------------------------------------------------------
(* C11 *)

\* generate returned after producing the video
Produced == pc = "done" /\ err = NoError /\ my_scene # << >>

\* the bounds generate compares in the transition to snapshot ind
PrevBounds(ind) ==
    BoundsValue(traj, get_square_bounds_for(ind - 1, AllSamples(traj_num_samples(traj))))

JointBounds(ind) ==
    BoundsValue(traj, get_square_bounds_for_all(ind, traj_num_samples(traj)))

NewBounds(ind) ==
    BoundsValue(traj, get_square_bounds_for(ind, AllSamples(traj_num_samples(traj))))

\* the zooms (out of the previous snapshot, in to the new one) whose two
\* bounds are not np.allclose
ZoomsNotClose ==
    {<<ind, "out">> : ind \in {k \in 1..(num_snapshots(traj) - 1) :
                                  ~allclose(PrevBounds(k), JointBounds(k))}}
    \cup {<<ind, "in">> : ind \in {k \in 1..(num_snapshots(traj) - 1) :
                                     ~allclose(JointBounds(k), NewBounds(k))}}

\* the zooms whose two bounds differ at all
ZoomsDiffering ==
    {<<ind, "out">> : ind \in {k \in 1..(num_snapshots(traj) - 1) :
                                  PrevBounds(k) # JointBounds(k)}}
    \cup {<<ind, "in">> : ind \in {k \in 1..(num_snapshots(traj) - 1) :
                                     JointBounds(k) # NewBounds(k)}}

\* C11 (amended): with clustering disabled and in production mode, the timeline
\* lasts 12 s for the intro plus, per transition, 6 s interpolation, 10 s hold
\* and 2 s for each zoom whose two bounds are not equal within np.allclose's
\* tolerance; a skipped zoom contributes no segment
C11_DurationAllclose ==
    (Produced /\ ~clusters /\ ~draft) =>
        /\ TimelineDuration(my_scene)
              = 1000 * (12 + 16 * (num_snapshots(traj) - 1) + 2 * Cardinality(ZoomsNotClose))
        /\ Len(my_scene)
              = 1 + 2 * (num_snapshots(traj) - 1) + Cardinality(ZoomsNotClose)

\* C11 as stated: ... 2 s if and only if the two bounds differ
C11_DurationDiffer ==
    (Produced /\ ~clusters /\ ~draft) =>
        /\ TimelineDuration(my_scene)
              = 1000 * (12 + 16 * (num_snapshots(traj) - 1) + 2 * Cardinality(ZoomsDiffering))
        /\ Len(my_scene)
              = 1 + 2 * (num_snapshots(traj) - 1) + Cardinality(ZoomsDiffering)

\* a production timeline without clusters whose transition has the zoom out
\* and skips the zoom in
C11_Witness ==
    /\ Produced /\ ~clusters /\ ~draft
    /\ num_snapshots(traj) >= 2
    /\ <<1, "out">> \in ZoomsNotClose
    /\ <<1, "in">> \notin ZoomsNotClose
    /\ TimelineDuration(my_scene) = 1000 * (12 + 16 * (num_snapshots(traj) - 1) + 2)

-----------------------------------------------------------------------------
(* C12 *)

\* the scenes of a segment: the one pushed and the ones joined to it
SceneTypes(seg) == {seg.scene.type} \cup {seg.joined[j].scene.type : j \in 1..Len(seg.joined)}

\* the segment shows only the samples in members
OnlyVisible(seg, members) ==
    \E j \in 1..Len(seg.joined) :
        /\ seg.joined[j].scene.type = "MaskedScene"
        /\ seg.joined[j].scene.mask = members

\* the five segments of one cluster, in order, for the samples all of which
\* members are the cluster's
IsFlyThrough(segs, all, members) ==
    /\ Len(segs) = 5
    /\ [j \in 1..5 |-> segs[j].scene.type]
         = <<"FadeScene", "ZoomScene", "RotationScene", "ZoomScene", "FadeScene">>
    /\ [j \in 1..5 |-> SegmentDuration(segs[j])] = <<2000, 2000, 10000, 2000, 2000>>
    /\ segs[1].scene.mask = all \ members /\ segs[1].scene.alpha = <<1, 0>>
    /\ segs[2].scene.zoom[1].members = all /\ segs[2].scene.zoom[2].members = members
    /\ OnlyVisible(segs[2], members)
    /\ segs[3].scene.rotation = <<<<30, 45>>, <<30, 405>>>>
    /\ OnlyVisible(segs[3], members)
    /\ segs[4].scene.zoom[1].members = members /\ segs[4].scene.zoom[2].members = all
    /\ OnlyVisible(segs[4], members)
    /\ segs[5].scene.mask = all \ members /\ segs[5].scene.alpha = <<0, 1>>

\* what one compile step (the intro, or one transition) put on the timeline
AddedSegments == SubSeq(my_scene', Len(my_scene) + 1, Len(my_scene'))

CompileStep ==
    /\ pc \in {"intro", "transitions"}
    /\ pc' = "transitions"
    /\ err' = NoError

\* C12: with clustering enabled, a snapshot in which K clusters were detected
\* gets, directly after its hold (or intro) segment and before anything of the
\* next transition, the five segments of each cluster in turn (fade out the
\* non-members 2 s, zoom in with only the members visible 2 s, full rotation
\* 10 s, zoom out 2 s, fade in 2 s): 18 s per cluster, 18 * K s in all, and
\* the segments before them are the ones of a timeline without clustering
C12_ClusterFlyThroughs ==
    [][(CompileStep /\ clusters) =>
        LET K == num_clusters(clusts')
            n == traj_num_samples(traj)
            plain == Len(AddedSegments) - 5 * K
            zooms == {j \in 1..(plain - 1) : AddedSegments[j].scene.type = "ZoomScene"}
        IN  /\ plain >= 1
            /\ AddedSegments[plain].scene.type = "SnapshotScene"
            /\ AddedSegments[plain].scene.snapshot_ind = snap_ind' - 1
            /\ \A j \in 1..plain :
                   SceneTypes(AddedSegments[j]) \cap {"FadeScene", "MaskedScene"} = {}
            /\ TimelineDuration(SubSeq(AddedSegments, 1, plain))
                 = IF pc = "intro" THEN 12000 ELSE 16000 + 2000 * Cardinality(zooms)
            /\ \A c \in 0..(K - 1) :
                   IsFlyThrough(SubSeq(AddedSegments, plain + 5 * c + 1, plain + 5 * c + 5),
                                AllSamples(n),
                                {j \in 1..n : clusts'.labels.data[j] = c})
            /\ TimelineDuration(AddedSegments)
                 = TimelineDuration(SubSeq(AddedSegments, 1, plain)) + 18000 * K]_vars

\* a transition was compiled for a snapshot with two clusters
C12_Witness ==
    /\ clusters
    /\ pc = "transitions"
    /\ snap_ind = 2
    /\ num_clusters(clusts) = 2
    /\ Len(my_scene) >= 13
    /\ my_scene[Len(my_scene)].scene.type = "FadeScene"

-----------------------------------------------------------------------------
(* C13 *)

\* the step from the compiled timeline to the produced video
ProduceStep == pc = "transitions" /\ pc' = "done" /\ err' = NoError

\* how much faster than production the mode plays
Speedup == IF draft THEN 5 ELSE 1

\* C13: the timeline is compiled the same in draft and in production mode
\* (no segment is rescaled before the video is produced); the timeline that is
\* produced has the same segments in the same order with the same scenes, and
\* in draft mode every segment, and so the whole timeline, lasts one fifth of
\* what it lasts in production mode
C13_DraftIsFifth ==
    [][ProduceStep =>
        /\ \A j \in 1..Len(my_scene) : my_scene[j].time_rescale = 1
        /\ Len(my_scene') = Len(my_scene)
        /\ \A j \in 1..Len(my_scene) :
               /\ my_scene'[j].scene = my_scene[j].scene
               /\ my_scene'[j].joined = my_scene[j].joined
               /\ my_scene'[j].dilate = my_scene[j].dilate
               /\ SegmentDuration(my_scene'[j]) * Speedup = SegmentDuration(my_scene[j])
        /\ TimelineDuration(my_scene') * Speedup = TimelineDuration(my_scene)]_vars

\* a draft of two snapshots with a zoom and a cluster was produced
C13_Witness ==
    /\ Produced /\ draft /\ clusters
    /\ Len(my_scene) >= 9
    /\ \E j \in 1..Len(my_scene) : my_scene[j].scene.type = "ZoomScene"
    /\ SegmentDuration(my_scene[Len(my_scene)]) = 400

-----------------------------------------------------------------------------
(* C17 and C18 *)

FracEq(x, y) == x[1] * y[2] = y[1] * x[2]

\* the self's apply is the call that ends the behaviour
Applies(type) == pc # "done" /\ pc' = "done" /\ self'.type = type

\* C17: FadeScene.apply at the time fraction t leaves exactly two partitions
\* visible: the masked points with the single override alpha = alpha_start +
\* (alpha_end - alpha_start) * t, and the other points with no override; the
\* two are disjoint and cover every sample once; title, bounds and rotation
\* are untouched
C17_FadePartitions ==
    [][Applies("FadeScene") =>
        LET vp == act_state'.visible_points
            all == AllSamples(act_state.num_samples)
        IN  /\ Len(vp) = 2
            /\ vp[1].mask = self'.mask
            /\ vp[1].pts = SamplesAt(self'.snapshot_ind, self'.mask)
            /\ DOMAIN vp[1].skwargs = {"alpha"}
            /\ FracEq(vp[1].skwargs.alpha,
                      <<self'.alpha[1] * time_ms'[2]
                          + (self'.alpha[2] - self'.alpha[1]) * time_ms'[1],
                        time_ms'[2]>>)
            /\ vp[2].mask = all \ self'.mask
            /\ vp[2].pts = SamplesAt(self'.snapshot_ind, all \ self'.mask)
            /\ vp[2].skwargs = << >>
            /\ vp[1].mask \cap vp[2].mask = {}
            /\ vp[1].mask \cup vp[2].mask = all
            /\ act_state'.title = act_state.title
            /\ act_state'.zoom = act_state.zoom
            /\ act_state'.rotation = act_state.rotation
            /\ act_state'.num_samples = act_state.num_samples]_vars

\* a fade half way from 1 to 0 of one sample out of three, after a MaskedScene
C17_Witness ==
    /\ pc = "done"
    /\ self.type = "FadeScene"
    /\ self.alpha = <<1, 0>>
    /\ Cardinality(self.mask) = 1
    /\ act_state.num_samples = 3
    /\ time_ms = <<2, 4>>
    /\ Len(act_state.visible_points) = 2
    /\ FracEq(act_state.visible_points[1].skwargs.alpha, <<1, 2>>)

\* the angle x lies in [0, 360)
InTurn(x) == 0 <= x[1] /\ x[1] < 360 * x[2]

\* x is y up to whole turns
SameAngle(x, y) == (x[1] * y[2] - y[1] * x[2]) % (360 * x[2] * y[2]) = 0

FullTurn == RotationScene(<<30, 45>>, <<30, 45 + 360>>)

\* C18: RotationScene.apply at the time fraction t sets elevation and azimuth
\* to start + (end - start) * t taken modulo 360, so both are in [0, 360);
\* for the full turn generate uses the rotation at t = 0 and at t = 1 is
\* (30, 45); nothing but the rotation changes
C18_RotationWraps ==
    [][Applies("RotationScene") =>
        LET rot == act_state'.rotation
            start == self'.rotation[1]
            end == self'.rotation[2]
        IN  /\ \A a \in {1, 2} :
                   /\ InTurn(rot[a])
                   /\ SameAngle(rot[a],
                                <<start[a] * time_ms'[2] + (end[a] - start[a]) * time_ms'[1],
                                  time_ms'[2]>>)
            /\ (self' = FullTurn /\ time_ms'[1] \in {0, time_ms'[2]}) =>
                   FracEq(rot[1], <<30, 1>>) /\ FracEq(rot[2], <<45, 1>>)
            /\ act_state'.title = act_state.title
            /\ act_state'.zoom = act_state.zoom
            /\ act_state'.visible_points = act_state.visible_points
            /\ act_state'.num_samples = act_state.num_samples]_vars

\* the full turn was applied at t = 1, after a MaskedScene
C18_Witness ==
    /\ pc = "done"
    /\ self = FullTurn
    /\ time_ms[1] = time_ms[2]
    /\ FracEq(act_state.rotation[2], <<45, 1>>)
    /\ Len(act_state.visible_points) = 1
    /\ act_state.visible_points[1].mask # AllSamples(act_state.num_samples)

-----------------------------------------------------------------------------
(* C20 *)

\* the points of the partition some ax.scatter call drew
Drawn == UNION {scatters[j].points : j \in 1..Len(scatters)}

\* the points of the partition some marker's mask covers
Covered ==
    {p \in visible_mask : \E j \in 1..Len(default_styling) : p \in default_styling[j][1]}

\* C20: when _scatter returns, every point of the partition that some marker
\* covers has been drawn at least once (so the loop did not stop before a
\* later marker that covers a point not yet drawn); every draw is of points
\* of the partition under its marker's mask, with the marker's style updated
\* by the partition's overrides; and the stored marker styles are as they were
C20_ScatterDrawsCovered ==
    pc = "done" =>
        /\ Covered \subseteq Drawn
        /\ \A j \in 1..Len(scatters) :
               LET marker == default_styling[scatters[j].ind + 1]
               IN  /\ scatters[j].points = visible_mask \cap marker[1]
                   /\ \A k \in DOMAIN skwargs \ {"c"} :
                          scatters[j].kwargs[k] = skwargs[k]
                   /\ \A k \in DOMAIN marker[2] \ (DOMAIN skwargs \cup {"c"}) :
                          scatters[j].kwargs[k] = marker[2][k]
                   /\ "c" \in DOMAIN skwargs =>
                          scatters[j].kwargs["c"].value = skwargs["c"].value
                   /\ ("c" \in DOMAIN marker[2] \ DOMAIN skwargs) =>
                          scatters[j].kwargs["c"].value = marker[2]["c"].value
        /\ default_styling = styling_at_call

\* the same without the first conjunct: what _scatter does draw is drawn with
\* the right points and style, and the stored styles are untouched
C20_DrawsAreRight ==
    pc = "done" =>
        /\ \A j \in 1..Len(scatters) :
               LET marker == default_styling[scatters[j].ind + 1]
               IN  /\ scatters[j].points = visible_mask \cap marker[1]
                   /\ scatters[j].kwargs = ScatterKwargs(marker[2], skwargs,
                                                         scatters[j].points)
        /\ default_styling = styling_at_call

-----------------------------------------------------------------------------
(* C16 and C19 *)

\* a frame of the video has been rendered
PlayedFrame == pc \in {"play", "done"} /\ frame > 0

LastFrameTime == (frame - 1) * FrameMs

\* the last frame is the first one that fell in its segment
FirstFrameOfSegment == LastFrameTime - FrameMs < windows[active][1]

CallsOf(call, k) ==
    {c \in 1..Len(events) : events[c].call = call /\ events[c].entry = k}

\* C16: while the video plays, the frame just rendered fell in exactly one
\* segment, the one after all the segments that started before it in the
\* order they were pushed; the instantaneous entries of every segment reached
\* so far were entered exactly once and those of the later segments never;
\* enter was called for the frame exactly when it is the first frame in its
\* segment, once for every instantaneous entry and before every apply; and
\* apply was called exactly once for every durative entry of that segment
\* and for no entry of another segment.
C16_EnterOnceApplyEveryFrame ==
    PlayedFrame =>
        LET es == Entries(my_scene[active])
        IN  /\ windows[1][1] = 0
            /\ \A j \in 1..(Len(windows) - 1) : windows[j + 1][1] = windows[j][2]
            /\ ActiveSegments(windows, LastFrameTime) = {active}
            /\ active = Cardinality({j \in 1..Len(windows) :
                                        windows[j][1] <= LastFrameTime})
            /\ \A j \in 1..Len(my_scene) : entered[j] = IF j <= active THEN 1 ELSE 0
            /\ \A c \in 1..Len(events) :
                   /\ events[c].segment = active
                   /\ events[c].entry \in 1..Len(es)
                   /\ es[events[c].entry].durative = (events[c].call = "apply")
            /\ \A k \in 1..Len(es) :
                   /\ es[k].durative => Cardinality(CallsOf("apply", k)) = 1
                   /\ ~es[k].durative =>
                          Cardinality(CallsOf("enter", k))
                              = IF FirstFrameOfSegment THEN 1 ELSE 0
            /\ \A a, b \in 1..Len(events) :
                   a < b => ~(events[a].call = "apply" /\ events[b].call = "enter")

\* the first frame of a later segment has been rendered, with calls of enter
\* followed by calls of apply
C16_Witness ==
    /\ PlayedFrame
    /\ active >= 2
    /\ FirstFrameOfSegment
    /\ \E a, b \in 1..Len(events) :
           a < b /\ events[a].call = "enter" /\ events[b].call = "apply"

\* a later frame of a segment has been rendered: apply alone was called
C16_WitnessLaterFrame ==
    /\ PlayedFrame
    /\ ~FirstFrameOfSegment
    /\ events # << >>
    /\ \A c \in 1..Len(events) : events[c].call = "apply"

RenderFields == {"title", "zoom", "rotation", "visible_points"}

\* the fields the scenes of a segment assign, by the methods they have
SetBySegment(seg) ==
    UNION {EnterAssigns(Entries(seg)[k].scene) \cup ApplyAssigns(Entries(seg)[k].scene) :
              k \in 1..Len(Entries(seg))}

\* every compiled segment holds scenes for the title, the bounds, the rotation
\* and the visible points
C19_SegmentsHoldAllFields ==
    pc \in {"play", "done"} =>
        \A j \in 1..Len(my_scene) : SetBySegment(my_scene[j]) = RenderFields

\* the field f was assigned by an entry of the segment the last frame fell in,
\* on entering the segment or for the last frame
FromActiveSegment(f) ==
    LET es == Entries(my_scene[active])
    IN  \E k \in 1..Len(es) :
            /\ act_state[f].by = es[k].scene
            /\ \/ act_state[f].at = EnterTime
               \/ act_state[f].at.num = LastFrameTime - windows[active][1]

\* C19: every compiled segment holds entries that together set the title, the
\* bounds, the rotation and the visible points, and so after every frame each
\* field of the render state is the one an entry of the segment the frame
\* fell in assigned, on entering the segment or at the frame's local time:
\* nothing is left of an earlier segment or of the snapshot-image loop.
C19_StateFromActiveSegment ==
    PlayedFrame =>
        /\ \A j \in 1..Len(my_scene) : SetBySegment(my_scene[j]) = RenderFields
        /\ \A f \in RenderFields : FromActiveSegment(f)

\* the title, the bounds and the visible points do come from the segment
\* the frame fell in
C19_AllButRotation ==
    PlayedFrame => \A f \in RenderFields \ {"rotation"} : FromActiveSegment(f)

-----------------------------------------------------------------------------
(* C15 *)

\* match_snaps has returned
Aligned == pc = "done" /\ aligned # << >>

IdentityTimes(q) == <<<<q, 0>>, <<0, q>>>>

\* the sum over every entry of the product of the entries of A and B
EntrySum(A, B) ==
    SumOver([r \in 1..Rows(A) |->
                SumOver([c \in 1..Cols(A) |-> A[r][c] * B[r][c]], 1..Cols(A))],
            1..Rows(A))

Difference(A, B) == [r \in 1..Rows(A) |-> [c \in 1..Cols(A) |-> A[r][c] - B[r][c]]]

\* l <= c * sqrt(q), for whole l, c and q > 0
AtMostRoot(l, c, q) ==
    IF c >= 0 THEN l <= 0 \/ l * l <= c * c * q
    ELSE l <= 0 /\ l * l >= c * c * q

\* the squared Frobenius distance of tomatch to reference before alignment
DistanceBefore == EntrySum(Difference(tom_samples, ref_samples),
                           Difference(tom_samples, ref_samples))

\* q times the squared distance after is
\* sum (N - sqrt(q) ref)^2 = sum N^2 + q sum ref^2 - 2 sqrt(q) sum N ref
DistanceNotLarger ==
    AtMostRoot(EntrySum(aligned.N, aligned.N)
                   + aligned.q * EntrySum(ref_samples, ref_samples)
                   - aligned.q * DistanceBefore,
               2 * EntrySum(aligned.N, ref_samples),
               aligned.q)

DistanceSmaller ==
    ~AtMostRoot(aligned.q * DistanceBefore
                    - EntrySum(aligned.N, aligned.N)
                    - aligned.q * EntrySum(ref_samples, ref_samples),
                -2 * EntrySum(aligned.N, ref_samples),
                aligned.q)

\* C15: when match_snaps has returned for two snapshots of as many samples
\* and components, the transform R it computed satisfies R^T R = identity,
\* the samples it returns are the samples of tomatch times R^T, and their
\* Frobenius distance to the samples of the reference is at most the distance
\* of the samples of tomatch to them.
C15_OrthonormalAndCloser ==
    Aligned =>
        /\ transform.q > 0
        /\ MatrixProduct(MatrixTranspose(transform.P), transform.P)
               = IdentityTimes(transform.q)
        /\ aligned = AlignedSamples(tom_samples, transform)
        /\ DistanceNotLarger

\* an alignment by a transform with irrational entries that brought the
\* samples strictly closer to the reference
C15_Witness ==
    /\ Aligned
    /\ Len(tom_samples) >= 2
    /\ \A k \in 1..3 : k * k # transform.q
    /\ DistanceSmaller

-----------------------------------------------------------------------------
(* C21 *)

\* _cluster_scene has pushed the fly-throughs of K >= 1 clusters
FlyThroughsPushed ==
    /\ pc = "done"
    /\ err = NoError
    /\ clusts.returned
    /\ num_clusters(clusts) >= 1
    /\ Len(my_scene) = 1 + 5 * num_clusters(clusts)

\* the mask of the fly-through of cluster c: the one of the MaskedScene joined
\* to its zoom in, the second of the five segments pushed for it after the intro
FlyThroughMask(c) == my_scene[1 + 5 * c + 2].joined[1].scene.mask

\* the samples the engine assigned to cluster c, and the noise
EngineMembers(c) == {j \in 1..Len(labels_) : labels_[j] = c}

EngineNoise == {j \in 1..Len(labels_) : labels_[j] = -1}

\* C21: when the engine's result has K >= 1 centers, for every cluster c in
\* 0..K-1 the member mask of c's fly-through (returned labels == c) holds
\* exactly the samples the engine assigned to c, which are exactly the samples
\* whose mean is center c, and no noise sample is in the mask of any cluster.
C21_MaskIsEngineCluster ==
    FlyThroughsPushed =>
        \A c \in 0..(num_clusters(clusts) - 1) :
            /\ FlyThroughMask(c) = EngineMembers(c)
            /\ FlyThroughMask(c) = clusts.centers.data[c + 1].members
            /\ FlyThroughMask(c) \cap EngineNoise = {}

\* what the code does: center c is the mean of the samples the engine
\* assigned to c, the mask of every cluster but 0 holds exactly those, and
\* the mask of cluster 0 holds them and the noise
C21_MaskButForNoise ==
    FlyThroughsPushed =>
        \A c \in 0..(num_clusters(clusts) - 1) :
            /\ clusts.centers.data[c + 1].members = EngineMembers(c)
            /\ FlyThroughMask(c)
                   = EngineMembers(c) \cup (IF c = 0 THEN EngineNoise ELSE {})

-----------------------------------------------------------------------------
(* C22 *)

\* generate has compiled the timeline
Compiled == pc \in {"play", "done"} /\ my_scene # << >>

\* the scene defines enter; the scene defines apply and no enter
IsInstantaneous(sc) == EnterAssigns(sc) # {}

IsDurativeOnly(sc) == ApplyAssigns(sc) # {} /\ EnterAssigns(sc) = {}

\* the intro and the closing holds: the segments that push a SnapshotScene
IsHold(seg) == seg.scene.type = "SnapshotScene"

\* C22: in every segment generate and _cluster_scene author, every scene
\* attached with join(scene, False) defines enter, and every scene that
\* defines only apply (RotationScene, ZoomScene, FadeScene, InterpScene) is a
\* durative entry of its segment; and on every frame of the intro and of a
\* closing hold the rotation is the one RotationScene.apply assigned for that
\* frame's local time.
C22_DurativeAttachedDurative ==
    Compiled =>
        /\ \A j \in 1..Len(my_scene) :
               \A k \in 1..Len(Entries(my_scene[j])) :
                   LET e == Entries(my_scene[j])[k]
                   IN  /\ (k > 1 /\ ~e.durative) => IsInstantaneous(e.scene)
                       /\ IsDurativeOnly(e.scene) => e.durative
        /\ (PlayedFrame /\ IsHold(my_scene[active])) =>
               /\ act_state.rotation.by.type = "RotationScene"
               /\ act_state.rotation.at.num = LastFrameTime - windows[active][1]

\* what the code does: the only scenes attached with join(scene, False) that
\* define no enter are the RotationScenes of the intro and the closing holds,
\* and on no frame of those segments was the rotation assigned by an apply
\* of theirs
C22_AllButHoldRotation ==
    Compiled =>
        /\ \A j \in 1..Len(my_scene) :
               \A k \in 1..Len(Entries(my_scene[j])) :
                   LET e == Entries(my_scene[j])[k]
                   IN  (IsDurativeOnly(e.scene) /\ ~e.durative)
                           <=> (IsHold(my_scene[j]) /\ e.scene.type = "RotationScene")
        /\ (PlayedFrame /\ IsHold(my_scene[active])) =>
               ~(/\ act_state.rotation.by.type = "RotationScene"
                 /\ act_state.rotation.at.easings = <<my_scene[active].dilate>>)

====
